---- MODULE Spec2Model ----
(***************************************************************************)
(* mc-dual-proxy: the PROXY-protocol codec (proxyproto.go), the TCP        *)
(* forwarder (handleConnection) and the session-auth fan-out               *)
(* (handleHasJoined, querySessionServer).                                  *)
(*                                                                         *)
(* Bytes are the integers 0..255; a byte string is a sequence of bytes.    *)
(***************************************************************************)
EXTENDS Integers, Sequences, FiniteSets, TLC

Min(a, b) == IF a < b THEN a ELSE b

Take(s, n) == SubSeq(s, 1, Min(n, Len(s)))

Drop(s, n) == SubSeq(s, n + 1, Len(s))

IsPrefix(p, s) == Len(p) <= Len(s) /\ SubSeq(s, 1, Len(p)) = p

\* position of the first occurrence of byte d in s, 0 when there is none
IndexByte(s, d) ==
  IF \E i \in 1..Len(s) : s[i] = d
  THEN CHOOSE i \in 1..Len(s) : s[i] = d /\ \A j \in 1..(i - 1) : s[j] # d
  ELSE 0

\* the two bytes read in little-endian order
BE16_little(hi, lo) == lo * 256 + hi

\* binary.BigEndian.Uint16 and PutUint16
BE16(hi, lo) == hi * 256 + lo

PutBE16(v) == << (v \div 256) % 256, v % 256 >>

\* Go's uint16(int) conversion
Uint16(i) == i % 65536

(***************************************************************************)
(* Program constants.                                                      *)
(***************************************************************************)
proxyV2Sig == << 13, 10, 13, 10, 0, 13, 10, 81, 85, 73, 84, 10 >>

\* "PROXY "
proxyV1Prefix == << 80, 82, 79, 88, 89, 32 >>

peekBufferSize == 512

\* "UNKNOWN"
StrUNKNOWN == << 85, 78, 75, 78, 79, 87, 78 >>

CR == 13

LF == 10

SP == 32

(***************************************************************************)
(* bufio.Reader over a byte source.  A reader is a record                  *)
(*   buf : the buffered, unread bytes (b.buf[b.r:b.w])                     *)
(*   src : the bytes the underlying reader can deliver now                 *)
(*   eof : the underlying reader fails (io.EOF) once src is drained        *)
(*   err : bufio's stored read error b.err                                 *)
(*   blk : a read had to wait: src was empty and the source still open     *)
(***************************************************************************)
NewReader(src, eof) ==
  [buf |-> << >>, src |-> src, eof |-> eof, err |-> FALSE, blk |-> FALSE]

\* b.fill(): one Read of the underlying reader into the free part of the buffer
fill(rd) ==
  IF rd.blk THEN rd
  ELSE IF rd.src # << >>
  THEN LET n == Min(Len(rd.src), peekBufferSize - Len(rd.buf))
       IN  [rd EXCEPT !.buf = rd.buf \o Take(rd.src, n), !.src = Drop(rd.src, n)]
  ELSE IF rd.eof THEN [rd EXCEPT !.err = TRUE]
  ELSE [rd EXCEPT !.blk = TRUE]

RECURSIVE PeekFill(_, _)
PeekFill(rd, n) ==
  IF Len(rd.buf) < n /\ Len(rd.buf) < peekBufferSize /\ ~rd.err /\ ~rd.blk
  THEN PeekFill(fill(rd), n)
  ELSE rd

\* br.Peek(n): the next n bytes without consuming them; fewer, and an error
\* (b.readErr(), which clears b.err), when the source ends first
Peek(rd, n) ==
  LET r == PeekFill(rd, n)
  IN  IF Len(r.buf) < n
      THEN [data |-> r.buf, err |-> TRUE, rd |-> [r EXCEPT !.err = FALSE]]
      ELSE [data |-> Take(r.buf, n), err |-> FALSE, rd |-> r]

\* br.Read(p) with len(p) = n > 0: at most one Read of the underlying reader
Read(rd, n) ==
  IF rd.buf # << >>
  THEN [data |-> Take(rd.buf, n), err |-> FALSE,
        rd |-> [rd EXCEPT !.buf = Drop(rd.buf, n)]]
  ELSE IF rd.err
  THEN [data |-> << >>, err |-> TRUE, rd |-> [rd EXCEPT !.err = FALSE]]
  ELSE IF rd.src = << >>
  THEN IF rd.eof
       THEN [data |-> << >>, err |-> TRUE, rd |-> rd]
       ELSE [data |-> << >>, err |-> FALSE, rd |-> [rd EXCEPT !.blk = TRUE]]
  ELSE IF n >= peekBufferSize
  THEN [data |-> Take(rd.src, n), err |-> FALSE,
        rd |-> [rd EXCEPT !.src = Drop(rd.src, n)]]
  ELSE LET f == fill(rd)
       IN  [data |-> Take(f.buf, n), err |-> FALSE,
            rd |-> [f EXCEPT !.buf = Drop(f.buf, n)]]

RECURSIVE ReadFullLoop(_, _, _)
ReadFullLoop(rd, n, acc) ==
  IF Len(acc) >= n \/ rd.blk
  THEN [data |-> acc, err |-> FALSE, rd |-> rd]
  ELSE LET r == Read(rd, n - Len(acc))
       IN  IF r.err
           THEN [data |-> acc \o r.data, err |-> TRUE, rd |-> r.rd]
           ELSE ReadFullLoop(r.rd, n, acc \o r.data)

\* readFull(br, buf) with len(buf) = n
readFull(rd, n) == ReadFullLoop(rd, n, << >>)

RECURSIVE ReadBytesLoop(_, _, _)
ReadBytesLoop(rd, delim, acc) ==
  LET i == IndexByte(rd.buf, delim)
  IN  IF i > 0
      THEN [data |-> acc \o Take(rd.buf, i), err |-> FALSE,
            rd |-> [rd EXCEPT !.buf = Drop(rd.buf, i)]]
      ELSE IF rd.err
      THEN [data |-> acc \o rd.buf, err |-> TRUE,
            rd |-> [rd EXCEPT !.buf = << >>, !.err = FALSE]]
      ELSE IF rd.blk
      THEN [data |-> acc, err |-> FALSE, rd |-> rd]
      ELSE IF Len(rd.buf) >= peekBufferSize
      THEN ReadBytesLoop([rd EXCEPT !.buf = << >>], delim, acc \o rd.buf)
      ELSE ReadBytesLoop(fill(rd), delim, acc)

\* br.ReadBytes(delim): up to and including the first delim
ReadBytes(rd, delim) == ReadBytesLoop(rd, delim, << >>)

RECURSIVE ReadAllLoop(_, _)
ReadAllLoop(rd, acc) ==
  IF rd.blk THEN acc
  ELSE IF rd.buf # << >> THEN ReadAllLoop([rd EXCEPT !.buf = << >>], acc \o rd.buf)
  ELSE IF rd.err \/ (rd.src = << >> /\ rd.eof) THEN acc
  ELSE ReadAllLoop(fill(rd), acc)

\* io.ReadAll(br): everything the reader still yields
ReadAll(rd) == ReadAllLoop(rd, << >>)

(***************************************************************************)
(* String helpers of parseProxyV1.                                         *)
(***************************************************************************)
RECURSIVE TrimRight(_, _)
\* strings.TrimRight(s, cutset): drop every trailing byte that is in cutset
TrimRight(s, cutset) ==
  IF s # << >> /\ s[Len(s)] \in cutset
  THEN TrimRight(SubSeq(s, 1, Len(s) - 1), cutset)
  ELSE s

RECURSIVE Split(_, _)
\* strings.Split(s, sep) for a one-byte separator: empty fields are kept
Split(s, sep) ==
  LET i == IndexByte(s, sep)
  IN  IF i = 0 THEN << s >>
      ELSE << SubSeq(s, 1, i - 1) >> \o Split(Drop(s, i), sep)

IsDigit(c) == c >= 48 /\ c <= 57

RECURSIVE DecVal(_)
DecVal(s) == IF s = << >> THEN 0 ELSE DecVal(SubSeq(s, 1, Len(s) - 1)) * 10 + (s[Len(s)] - 48)

RECURSIVE SpanLen(_, _)
\* length of the longest prefix of s whose bytes are all in set
SpanLen(s, set) ==
  IF s # << >> /\ s[1] \in set THEN 1 + SpanLen(Drop(s, 1), set) ELSE 0

\* fmt's decimalDigits, "0123456789_"
ScanDigits == (48..57) \cup {95}

\* a conversion of the whole token (strconv.Atoi style): 0 unless the token is
\* an optionally signed run of digits
Sscanf_atoi(tok) ==
  LET signed == tok # << >> /\ tok[1] \in {43, 45}
      body   == IF signed THEN Drop(tok, 1) ELSE tok
  IN  IF body = << >> \/ (\E i \in 1..Len(body) : ~IsDigit(body[i]))
      THEN 0
      ELSE IF signed /\ tok[1] = 45 THEN 0 - DecVal(body) ELSE DecVal(body)

\* fmt.Sscanf(tok, "%d", &v) into v = 0: an optional sign, then the longest run
\* of decimalDigits, given to strconv.ParseInt(.., 10, 64); on any error (no
\* digit, an underscore in the run) v keeps its 0.  Input after the number is
\* left unread.  Tokens here hold no white space (they come from a split on
\* spaces of a line without CR/LF) and numerals of at most 9 digits, so the
\* int64 range error of ParseInt cannot arise.
Sscanf(tok) ==
  LET signed == tok # << >> /\ tok[1] \in {43, 45}
      body   == IF signed THEN Drop(tok, 1) ELSE tok
      num    == Take(body, SpanLen(body, ScanDigits))
  IN  IF num = << >> \/ (\E i \in 1..Len(num) : num[i] = 95)
      THEN 0
      ELSE IF signed /\ tok[1] = 45 THEN 0 - DecVal(num) ELSE DecVal(num)

(***************************************************************************)
(* net.IP: a byte string of length 4 or 16; nil is the empty string.       *)
(***************************************************************************)
Zeros(n) == [i \in 1..n |-> 0]

v4InV6Prefix == Zeros(10) \o << 255, 255 >>

\* a 4-byte test only: an IPv4 address held in 16 bytes is not taken for one
To4_lenOnly(ip) == IF Len(ip) = 4 THEN ip ELSE << >>

\* net.IP.To4
To4(ip) ==
  IF Len(ip) = 4 THEN ip
  ELSE IF Len(ip) = 16 /\ Take(ip, 12) = v4InV6Prefix THEN Drop(ip, 12)
  ELSE << >>

\* net.IP.To16
To16(ip) ==
  IF Len(ip) = 4 THEN v4InV6Prefix \o ip
  ELSE IF Len(ip) = 16 THEN ip
  ELSE << >>

\* net.IP.Equal: an IPv4 address and its IPv4-in-IPv6 form are the same IP
IPEqual(a, b) ==
  IF Len(a) = Len(b) THEN a = b
  ELSE IF Len(a) = 4 /\ Len(b) = 16 THEN Take(b, 12) = v4InV6Prefix /\ Drop(b, 12) = a
  ELSE IF Len(a) = 16 /\ Len(b) = 4 THEN Take(a, 12) = v4InV6Prefix /\ Drop(a, 12) = b
  ELSE FALSE

\* one dotted-decimal octet: digits only, no leading zero, at most 255
OctetOK(f) ==
  /\ f # << >>
  /\ \A i \in 1..Len(f) : IsDigit(f[i])
  /\ (Len(f) > 1 => f[1] # 48)
  /\ Len(f) <= 3
  /\ DecVal(f) <= 255

\* netip's parseIPv4Fields: the four octets, << >> when malformed
parseIPv4Fields(s) ==
  LET fs == Split(s, 46)
  IN  IF Len(fs) = 4 /\ \A i \in 1..4 : OctetOK(fs[i])
      THEN [i \in 1..4 |-> DecVal(fs[i])]
      ELSE << >>

HexVal(c) ==
  IF c >= 48 /\ c <= 57 THEN c - 48
  ELSE IF c >= 97 /\ c <= 102 THEN c - 87
  ELSE IF c >= 65 /\ c <= 70 THEN c - 55
  ELSE 0 - 1

HexDigits == (48..57) \cup (97..102) \cup (65..70)

RECURSIVE HexAcc(_)
HexAcc(s) == IF s = << >> THEN 0 ELSE HexAcc(SubSeq(s, 1, Len(s) - 1)) * 16 + HexVal(s[Len(s)])

RECURSIVE V6Loop(_, _, _)
\* the group loop of netip's parseIPv6: s the unparsed text, ip the bytes
\* parsed so far, ell the byte offset of "::" (-1: none seen)
V6Loop(s, ip, ell) ==
  LET off == SpanLen(s, HexDigits)
      acc == HexAcc(Take(s, off))
      bad == [ok |-> FALSE, ip |-> << >>, ell |-> ell]
  IN  IF Len(ip) >= 16 THEN [ok |-> s = << >>, ip |-> ip, ell |-> ell]
      ELSE IF off = 0 \/ off > 4 THEN bad
      ELSE IF off < Len(s) /\ s[off + 1] = 46
      THEN LET v4 == parseIPv4Fields(s)
           IN  IF (ell < 0 /\ Len(ip) # 12) \/ Len(ip) + 4 > 16 \/ v4 = << >>
               THEN bad
               ELSE [ok |-> TRUE, ip |-> ip \o v4, ell |-> ell]
      ELSE LET ip2 == ip \o << acc \div 256, acc % 256 >>
               s2  == Drop(s, off)
           IN  IF s2 = << >> THEN [ok |-> TRUE, ip |-> ip2, ell |-> ell]
               ELSE IF s2[1] # 58 \/ Len(s2) = 1 THEN bad
               ELSE IF s2[2] = 58
               THEN IF ell >= 0 THEN bad
                    ELSE IF Len(s2) = 2 THEN [ok |-> TRUE, ip |-> ip2, ell |-> Len(ip2)]
                    ELSE V6Loop(Drop(s2, 2), ip2, Len(ip2))
               ELSE V6Loop(Drop(s2, 1), ip2, ell)

\* netip's parseIPv6 for a text without a zone: 16 bytes, << >> when malformed
parseIPv6(s) ==
  LET lead == Len(s) >= 2 /\ s[1] = 58 /\ s[2] = 58
      r    == IF lead THEN V6Loop(Drop(s, 2), << >>, 0) ELSE V6Loop(s, << >>, 0 - 1)
  IN  IF lead /\ Len(s) = 2 THEN Zeros(16)
      ELSE IF ~r.ok THEN << >>
      ELSE IF Len(r.ip) < 16
      THEN IF r.ell < 0 THEN << >>
           ELSE Take(r.ip, r.ell) \o Zeros(16 - Len(r.ip)) \o Drop(r.ip, r.ell)
      ELSE IF r.ell >= 0 THEN << >>
      ELSE r.ip

\* net.ParseIP: the 16-byte form of an IPv4 or IPv6 literal, nil (<< >>)
\* otherwise; the first '.', ':' or '%' of the text decides the family
ParseIP(s) ==
  LET k == SpanLen(s, (0..255) \ {46, 58, 37})
  IN  IF k >= Len(s) THEN << >>
      ELSE IF s[k + 1] = 46
      THEN LET v4 == parseIPv4Fields(s) IN IF v4 = << >> THEN << >> ELSE To16(v4)
      ELSE IF s[k + 1] = 58 /\ \A i \in 1..Len(s) : s[i] # 37
      THEN parseIPv6(s)
      ELSE << >>

(***************************************************************************)
(* The codec (proxyproto.go).  A *ProxyHeader is a record; the nil pointer *)
(* is NilHeader (Version 0).  A nil net.IP is << >>.  An error is a        *)
(* string naming the failing step, "" for nil.  Every operation returns    *)
(* the reader it leaves behind.                                            *)
(***************************************************************************)
NilHeader ==
  [Version |-> 0, SrcAddr |-> << >>, DstAddr |-> << >>,
   SrcPort |-> 0, DstPort |-> 0, RawBytes |-> << >>]

\* return nil, fmt.Errorf(...)
Failed(e, rd) == [hdr |-> NilHeader, err |-> e, rd |-> rd]

\* parseProxyV1 keeping the trimmed line, without its CRLF, as RawBytes
parseProxyV1_trimmedRaw(rd) ==
  LET r     == ReadBytes(rd, LF)
      line  == r.data
      str   == TrimRight(line, {CR, LF})
      parts == Split(str, SP)
      header == [NilHeader EXCEPT !.Version = 1, !.RawBytes = str]
  IN  IF r.rd.blk THEN Failed("", r.rd)
      ELSE IF r.err THEN Failed("proxy v1: failed to read header line", r.rd)
      ELSE IF Len(line) < 2 \/ line[Len(line) - 1] # CR
      THEN Failed("proxy v1: header does not end with CRLF", r.rd)
      ELSE IF Len(parts) = 2 /\ parts[2] = StrUNKNOWN
      THEN [hdr |-> header, err |-> "", rd |-> r.rd]
      ELSE IF Len(parts) # 6
      THEN Failed("proxy v1: expected 6 fields", r.rd)
      ELSE [hdr |-> [header EXCEPT !.SrcAddr = ParseIP(parts[3]),
                                   !.DstAddr = ParseIP(parts[4]),
                                   !.SrcPort = Uint16(Sscanf(parts[5])),
                                   !.DstPort = Uint16(Sscanf(parts[6]))],
            err |-> "", rd |-> r.rd]

parseProxyV1(rd) ==
  LET r     == ReadBytes(rd, LF)
      line  == r.data
      str   == TrimRight(line, {CR, LF})
      parts == Split(str, SP)
      header == [NilHeader EXCEPT !.Version = 1, !.RawBytes = line]
  IN  IF r.rd.blk THEN Failed("", r.rd)
      ELSE IF r.err THEN Failed("proxy v1: failed to read header line", r.rd)
      ELSE IF Len(line) < 2 \/ line[Len(line) - 1] # CR
      THEN Failed("proxy v1: header does not end with CRLF", r.rd)
      ELSE IF Len(parts) = 2 /\ parts[2] = StrUNKNOWN
      THEN [hdr |-> header, err |-> "", rd |-> r.rd]
      ELSE IF Len(parts) # 6
      THEN Failed("proxy v1: expected 6 fields", r.rd)
      ELSE [hdr |-> [header EXCEPT !.SrcAddr = ParseIP(parts[3]),
                                   !.DstAddr = ParseIP(parts[4]),
                                   !.SrcPort = Uint16(Sscanf(parts[5])),
                                   !.DstPort = Uint16(Sscanf(parts[6]))],
            err |-> "", rd |-> r.rd]

\* the v2 parser without the test of the version nibble
parseProxyV2_anyVersion(rd) ==
  LET f           == readFull(rd, 16)
      fixedHeader == f.data
      ver         == fixedHeader[13] \div 16
      addrFamily  == fixedHeader[14] \div 16
      addrLen     == BE16(fixedHeader[15], fixedHeader[16])
      a           == IF addrLen > 0 THEN readFull(f.rd, addrLen)
                     ELSE [data |-> << >>, err |-> FALSE, rd |-> f.rd]
      addrBlock   == a.data
      header      == [NilHeader EXCEPT !.Version = 2,
                                       !.RawBytes = fixedHeader \o addrBlock]
  IN  IF f.rd.blk THEN Failed("", f.rd)
      ELSE IF f.err THEN Failed("proxy v2: failed to read fixed header", f.rd)
      ELSE IF a.rd.blk THEN Failed("", a.rd)
      ELSE IF a.err THEN Failed("proxy v2: failed to read address block", a.rd)
      ELSE IF addrFamily = 1 /\ addrLen >= 12
      THEN [hdr |-> [header EXCEPT !.SrcAddr = SubSeq(addrBlock, 1, 4),
                                   !.DstAddr = SubSeq(addrBlock, 5, 8),
                                   !.SrcPort = BE16(addrBlock[9], addrBlock[10]),
                                   !.DstPort = BE16(addrBlock[11], addrBlock[12])],
            err |-> "", rd |-> a.rd]
      ELSE IF addrFamily = 2 /\ addrLen >= 36
      THEN [hdr |-> [header EXCEPT !.SrcAddr = SubSeq(addrBlock, 1, 16),
                                   !.DstAddr = SubSeq(addrBlock, 17, 32),
                                   !.SrcPort = BE16(addrBlock[33], addrBlock[34]),
                                   !.DstPort = BE16(addrBlock[35], addrBlock[36])],
            err |-> "", rd |-> a.rd]
      ELSE [hdr |-> header, err |-> "", rd |-> a.rd]

parseProxyV2(rd) ==
  LET f           == readFull(rd, 16)
      fixedHeader == f.data
      ver         == fixedHeader[13] \div 16
      addrFamily  == fixedHeader[14] \div 16
      addrLen     == BE16(fixedHeader[15], fixedHeader[16])
      a           == IF addrLen > 0 THEN readFull(f.rd, addrLen)
                     ELSE [data |-> << >>, err |-> FALSE, rd |-> f.rd]
      addrBlock   == a.data
      header      == [NilHeader EXCEPT !.Version = 2,
                                       !.RawBytes = fixedHeader \o addrBlock]
  IN  IF f.rd.blk THEN Failed("", f.rd)
      ELSE IF f.err THEN Failed("proxy v2: failed to read fixed header", f.rd)
      ELSE IF ver # 2 THEN Failed("proxy v2: unexpected version", f.rd)
      ELSE IF a.rd.blk THEN Failed("", a.rd)
      ELSE IF a.err THEN Failed("proxy v2: failed to read address block", a.rd)
      ELSE IF addrFamily = 1 /\ addrLen >= 12
      THEN [hdr |-> [header EXCEPT !.SrcAddr = SubSeq(addrBlock, 1, 4),
                                   !.DstAddr = SubSeq(addrBlock, 5, 8),
                                   !.SrcPort = BE16(addrBlock[9], addrBlock[10]),
                                   !.DstPort = BE16(addrBlock[11], addrBlock[12])],
            err |-> "", rd |-> a.rd]
      ELSE IF addrFamily = 2 /\ addrLen >= 36
      THEN [hdr |-> [header EXCEPT !.SrcAddr = SubSeq(addrBlock, 1, 16),
                                   !.DstAddr = SubSeq(addrBlock, 17, 32),
                                   !.SrcPort = BE16(addrBlock[33], addrBlock[34]),
                                   !.DstPort = BE16(addrBlock[35], addrBlock[36])],
            err |-> "", rd |-> a.rd]
      ELSE [hdr |-> header, err |-> "", rd |-> a.rd]

\* detectProxyProtocol reading the probe bytes instead of peeking at them:
\* with no header found the reader has lost what was looked at
detectProxyProtocol_consuming(rd) ==
  LET p16  == Peek(rd, 16)
      p6   == Peek(p16.rd, 6)
      peek == IF p16.err THEN p6 ELSE p16
      used == [peek.rd EXCEPT !.buf = Drop(peek.rd.buf, Len(peek.data))]
  IN  IF p16.rd.blk THEN Failed("", p16.rd)
      ELSE IF p16.err /\ p6.rd.blk THEN Failed("", p6.rd)
      ELSE IF p16.err /\ p6.err THEN [hdr |-> NilHeader, err |-> "", rd |-> p6.rd]
      ELSE IF Len(peek.data) >= 16 /\ SubSeq(peek.data, 1, 12) = proxyV2Sig
      THEN parseProxyV2(peek.rd)
      ELSE IF Len(peek.data) >= 6 /\ SubSeq(peek.data, 1, 6) = proxyV1Prefix
      THEN parseProxyV1(peek.rd)
      ELSE [hdr |-> NilHeader, err |-> "", rd |-> used]

\* the result is (nil, nil) with the reader untouched when no header is found;
\* rd.blk in the result says the call is still waiting for bytes
detectProxyProtocol(rd) ==
  LET p16  == Peek(rd, 16)
      p6   == Peek(p16.rd, 6)
      peek == IF p16.err THEN p6 ELSE p16
  IN  IF p16.rd.blk THEN Failed("", p16.rd)
      ELSE IF p16.err /\ p6.rd.blk THEN Failed("", p6.rd)
      ELSE IF p16.err /\ p6.err THEN [hdr |-> NilHeader, err |-> "", rd |-> p6.rd]
      ELSE IF Len(peek.data) >= 16 /\ SubSeq(peek.data, 1, 12) = proxyV2Sig
      THEN parseProxyV2(peek.rd)
      ELSE IF Len(peek.data) >= 6 /\ SubSeq(peek.data, 1, 6) = proxyV1Prefix
      THEN parseProxyV1(peek.rd)
      ELSE [hdr |-> NilHeader, err |-> "", rd |-> peek.rd]

\* copy(dst, src) into n zero bytes
CopyInto(n, src) == Take(src, n) \o Zeros(n - Min(n, Len(src)))

\* buildProxyV2Header with the two addresses exchanged
buildProxyV2Header_swapped(srcAddr, dstAddr) ==
  LET srcIPv4 == To4(dstAddr.IP)
      dstIPv4 == To4(srcAddr.IP)
  IN  IF ~srcAddr.tcp \/ ~dstAddr.tcp
      THEN proxyV2Sig \o << 32, 0 >> \o PutBE16(0)
      ELSE IF srcIPv4 # << >> /\ dstIPv4 # << >>
      THEN proxyV2Sig \o << 33, 17 >> \o PutBE16(12)
             \o CopyInto(4, srcIPv4) \o CopyInto(4, dstIPv4)
             \o PutBE16(Uint16(dstAddr.Port)) \o PutBE16(Uint16(srcAddr.Port))
      ELSE proxyV2Sig \o << 33, 33 >> \o PutBE16(36)
             \o CopyInto(16, To16(dstAddr.IP)) \o CopyInto(16, To16(srcAddr.IP))
             \o PutBE16(Uint16(dstAddr.Port)) \o PutBE16(Uint16(srcAddr.Port))

\* a net.Addr is [tcp, IP, Port]; tcp says it is a *net.TCPAddr
buildProxyV2Header(srcAddr, dstAddr) ==
  LET srcIPv4 == To4(srcAddr.IP)
      dstIPv4 == To4(dstAddr.IP)
  IN  IF ~srcAddr.tcp \/ ~dstAddr.tcp
      THEN proxyV2Sig \o << 32, 0 >> \o PutBE16(0)
      ELSE IF srcIPv4 # << >> /\ dstIPv4 # << >>
      THEN proxyV2Sig \o << 33, 17 >> \o PutBE16(12)
             \o CopyInto(4, srcIPv4) \o CopyInto(4, dstIPv4)
             \o PutBE16(Uint16(srcAddr.Port)) \o PutBE16(Uint16(dstAddr.Port))
      ELSE proxyV2Sig \o << 33, 33 >> \o PutBE16(36)
             \o CopyInto(16, To16(srcAddr.IP)) \o CopyInto(16, To16(dstAddr.IP))
             \o PutBE16(Uint16(srcAddr.Port)) \o PutBE16(Uint16(dstAddr.Port))

(***************************************************************************)
(* Inputs of the bounded check.                                            *)
(***************************************************************************)
\* longest arbitrary payload appended to a header
MaxPayload == 2

SeqsUpTo(S, n) == UNION { [1..k -> S] : k \in 0..n }

\* "PROXY UNKNOWN\r\n"
V1Unknown == << 80, 82, 79, 88, 89, 32, 85, 78, 75, 78, 79, 87, 78, 13, 10 >>

\* "PROXY TCP4 1.2.3.4 10.0.0.1 11111 25565\r\n"
V1Tcp4 ==
  << 80, 82, 79, 88, 89, 32, 84, 67, 80, 52, 32, 49, 46, 50, 46, 51, 46, 52, 32,
     49, 48, 46, 48, 46, 48, 46, 49, 32, 49, 49, 49, 49, 49, 32, 50, 53, 53, 54,
     53, 13, 10 >>

\* "PROXY TCP6 ::1 2001:db8::2 1 65535\r\n"
V1Tcp6 ==
  << 80, 82, 79, 88, 89, 32, 84, 67, 80, 54, 32, 58, 58, 49, 32, 50, 48, 48, 49,
     58, 100, 98, 56, 58, 58, 50, 32, 49, 32, 54, 53, 53, 51, 53, 13, 10 >>

\* a v2 header: signature, version/command, family/transport, BE16 length, block
MkV2(verCmd, famProto, block) ==
  proxyV2Sig \o << verCmd, famProto >> \o PutBE16(Len(block)) \o block

IPv4A == << 192, 168, 1, 100 >>

IPv4B == << 10, 0, 0, 1 >>

\* 2001:db8::1
IPv6A == << 32, 1, 13, 184, 0, 0, 0, 0, 0, 0, 0, 0, 0, 0, 0, 1 >>

\* 2001:db8::2
IPv6B == << 32, 1, 13, 184, 0, 0, 0, 0, 0, 0, 0, 0, 0, 0, 0, 2 >>

V2Inet == MkV2(33, 17, IPv4A \o IPv4B \o PutBE16(12345) \o PutBE16(25565))

V2Inet6 == MkV2(33, 33, IPv6A \o IPv6B \o PutBE16(49152) \o PutBE16(25565))

V2Local == MkV2(32, 0, << >>)

\* AF_INET with a TLV after the addresses
V2InetTLV ==
  MkV2(33, 17, IPv4A \o IPv4B \o PutBE16(1) \o PutBE16(65535) \o << 4, 0, 1, 7 >>)

\* AF_INET whose block is shorter than the 12 address bytes
V2InetShort == MkV2(33, 18, << 1, 2, 3 >>)

\* an address family other than INET and INET6
V2OtherFam == MkV2(33, 49, << 9, 9 >>)

\* AF_INET6 whose block is shorter than the 36 address bytes
V2Inet6Short == MkV2(33, 33, IPv4A \o IPv4B \o PutBE16(1) \o PutBE16(2))

\* AF_INET6 with a TLV after the addresses, command nibble 0
V2Inet6TLV ==
  MkV2(32, 33, IPv6B \o IPv6A \o PutBE16(256) \o PutBE16(255) \o << 4, 0, 0 >>)

\* AF_INET with a command nibble that is neither LOCAL nor PROXY
V2OddCmd == MkV2(47, 17, IPv4B \o IPv4A \o PutBE16(80) \o PutBE16(443))

V1Headers == { V1Unknown, V1Tcp4, V1Tcp6 }

V2Headers ==
  { V2Inet, V2Inet6, V2Local, V2InetTLV, V2InetShort, V2OtherFam, V2Inet6Short,
    V2Inet6TLV, V2OddCmd }

\* lines that begin with "PROXY " in other shapes: six fields with another
\* protocol word, six fields after UNKNOWN, six fields that are no addresses
\* or ports, a protocol word alone, seven fields
V1OtherLines ==
  { \* "PROXY UDP4 1.2.3.4 5.6.7.8 1 2\r\n"
    << 80, 82, 79, 88, 89, 32, 85, 68, 80, 52, 32, 49, 46, 50, 46, 51, 46,
       52, 32, 53, 46, 54, 46, 55, 46, 56, 32, 49, 32, 50, 13, 10 >>,
    \* "PROXY UNKNOWN 1 2 3 4\r\n"
    << 80, 82, 79, 88, 89, 32, 85, 78, 75, 78, 79, 87, 78, 32, 49, 32, 50,
       32, 51, 32, 52, 13, 10 >>,
    \* "PROXY TCP4 a b c d\r\n"
    << 80, 82, 79, 88, 89, 32, 84, 67, 80, 52, 32, 97, 32, 98, 32, 99, 32,
       100, 13, 10 >>,
    \* "PROXY TCP4\r\n"
    << 80, 82, 79, 88, 89, 32, 84, 67, 80, 52, 13, 10 >>,
    \* "PROXY TCP6 ::1 ::2 1 2 3\r\n"
    << 80, 82, 79, 88, 89, 32, 84, 67, 80, 54, 32, 58, 58, 49, 32, 58, 58,
       50, 32, 49, 32, 50, 32, 51, 13, 10 >> }

\* "PROXY TCP4 <src> 10.0.0.1 <srcport> <dstport>\r\n"
MkV1Tcp4(src, sp, dp) ==
  proxyV1Prefix \o << 84, 67, 80, 52, 32 >> \o src \o << 32, 49, 48, 46, 48, 46, 48, 46, 49, 32 >>
    \o sp \o << 32 >> \o dp \o << CR, LF >>

\* address tokens: "1.2.3.4" and "localhost"
V1AddrTokens == { << 49, 46, 50, 46, 51, 46, 52 >>, << 108, 111, 99, 97, 108, 104, 111, 115, 116 >> }

\* port tokens: "25565", "0", "65535", "65536", "-1", "abc", "", "80abc"
V1PortTokens ==
  { << 50, 53, 53, 54, 53 >>,
    << 48 >>,
    << 54, 53, 53, 51, 53 >>,
    << 54, 53, 53, 51, 54 >>,
    << 45, 49 >>,
    << 97, 98, 99 >>,
    << >>,
    << 56, 48, 97, 98, 99 >> }

\* six-field TCP4 lines over these tokens
V1TokenLines ==
  { MkV1Tcp4(a, sp, dp) : a \in V1AddrTokens, sp \in V1PortTokens,
                          dp \in { << 50, 53, 53, 54, 53 >>, << 97, 98, 99 >> } }

WellFormedHeaders == V1Headers \cup V2Headers

\* payload bytes: NUL, LF, CR, 'P', and the first byte of a handshake
PayloadBytes == { 0, LF, CR, 80, 16 }

Payloads == SeqsUpTo(PayloadBytes, MaxPayload) \cup { proxyV1Prefix, V2Local }

\* TestDetectNoProxyProtocol's Minecraft handshake
McHandshake ==
  << 16, 0, 253, 5, 9, 108, 111, 99, 97, 108, 104, 111, 115, 116, 99, 221, 2 >>

\* byte strings that begin with neither "PROXY " nor the v2 signature
NonHeaderStreams ==
  { Take(McHandshake, n) : n \in 0..Len(McHandshake) }
    \cup { Take(proxyV1Prefix, n) \o p : n \in 0..5, p \in SeqsUpTo({ 0, 88 }, MaxPayload) }
    \cup { Take(proxyV2Sig, n) \o Zeros(k) : n \in 0..11, k \in { 0, 1, 5, 16 } }
    \cup { << 112, 114, 111, 120, 121, 32 >> \o V1Unknown }

\* streams that begin like a header and are not one
\* "PROXY TCP4 1.2.3.4\r\n", "PROXY UNKNOWN\n", "PROXY UNKNOWN 1 2\r\n"
MalformedStreams ==
  { << 80, 82, 79, 88, 89, 32, 84, 67, 80, 52, 32, 49, 46, 50, 46, 51, 46, 52, 13, 10 >>,
    << 80, 82, 79, 88, 89, 32, 85, 78, 75, 78, 79, 87, 78, 10 >>,
    << 80, 82, 79, 88, 89, 32, 85, 78, 75, 78, 79, 87, 78, 32, 49, 32, 50, 13, 10 >>,
    MkV2(17, 17, IPv4A \o IPv4B \o PutBE16(1) \o PutBE16(2)),
    Take(V2Inet, 20),
    Take(V1Tcp4, 30) }

Ports == { 0, 255, 256, 25565, 65535 }

TCPAddrs ==
  { [tcp |-> TRUE, IP |-> ip, Port |-> p] :
      ip \in { IPv4A, To16(IPv4B), IPv6A, IPv6B }, p \in Ports }

\* an address that is no *net.TCPAddr
PipeAddr == [tcp |-> FALSE, IP |-> << >>, Port |-> 0]

NoAddr == PipeAddr

(***************************************************************************)
(* The codec as a state machine: one call of buildProxyV2Header (for an    *)
(* address pair), one call of detectProxyProtocol on a bufio.Reader over   *)
(* the whole stream (a bytes.Reader, as in the tests), then io.ReadAll.    *)
(***************************************************************************)
VARIABLES
  cdCase,    \* the input: [kind, H, B, src, dst]
  cdPc,      \* "build", "detect", "readall", "end"
  cdStream,  \* the stream given to the reader
  cdRes,     \* what detectProxyProtocol returned: [hdr, err, rd]
  cdRest     \* what io.ReadAll returned afterwards

codecVars == << cdCase, cdPc, cdStream, cdRes, cdRest >>

\* One accepted connection of the TCP forwarder (handleConnection), with the
\* client and the backend as its environment.
VARIABLES
  cPlan,       \* [H, B]: the header (<< >>: none) and payload the client means to send
  cSent,       \* how many bytes of H \o B the client has sent
  cState,      \* the client's socket: "open", "shut" (write side closed), "closed"
  remoteAddr,  \* clientConn.RemoteAddr()
  localAddr,   \* clientConn.LocalAddr()
  sock,        \* bytes of the client that arrived and the proxy has not read
  buf,         \* bytes br holds buffered and unread
  pc,          \* handler: "detect", "dial", "header", "splice", "closed"
  ret,         \* the return taken: "", "detect", "dial", "header", "done"
  proxyHeader, \* detectProxyProtocol's header (NilHeader: nil)
  bState,      \* the backend's socket: "none", "open", "shut", "closed"
  bIn,         \* every byte written to backendConn, in order
  bInEOF,      \* the backend's read side has seen EOF
  bPlan,       \* the bytes the backend means to send
  bSent,       \* how many of them it has sent
  bsock,       \* bytes of the backend that arrived and the proxy has not read
  cIn,         \* every byte written to clientConn, in order
  cInEOF,      \* the client's read side has seen EOF
  c2b,         \* client->backend copy: "idle", "run", "done", "failed"
  b2c          \* backend->client copy: "idle", "run", "done", "failed"

tcpVars ==
  << cPlan, cSent, cState, remoteAddr, localAddr, sock, buf, pc, ret, proxyHeader,
     bState, bIn, bInEOF, bPlan, bSent, bsock, cIn, cInEOF, c2b, b2c >>

\* One hasJoined request of the multiauth server (handleHasJoined), its probes
\* (querySessionServer, one goroutine per session server) and the session
\* servers as its environment.
VARIABLES
  req,         \* the request the mux is serving: method, URL path, raw query
  query,       \* query := r.URL.RawQuery of handleHasJoined
  upstream,    \* per server: what the session server does with the request
  ppc,         \* per probe: "idle", "new", "do", "read", "done"
  resultCh,    \* the results buffered in resultCh, oldest first
  ctxDone,     \* ctx.Done() is closed: deadline, or cancel()
  dpc,         \* handler: "mux", "entry", "loop", "select", "parked", "got", "timeout", "done"
  result,      \* the result the select received
  remaining,   \* results still awaited
  lastResult,  \* the last result that did not win
  resp,        \* the responses written to w, in order
  taken,       \* history: the results the select received, in order
  arrived,     \* history: the results the probes sent, in order
  inTime       \* history: servers whose 200 with a non-empty body was read
               \* before ctx was done

authVars ==
  << req, query, upstream, ppc, resultCh, ctxDone, dpc, result, remaining, lastResult,
     resp, taken, arrived, inTime >>

\* The accept loop of the TCP forwarder (startTCPProxy) and the handlers it
\* starts (handleConnection, one goroutine per accepted connection), with the
\* clients and the backend as their environment.
VARIABLES
  clients,     \* per client: [kind, st, sock, got, gotEOF, closed]
  ln,          \* the listener's queue: connections waiting for Accept, oldest first
  acceptErrs,  \* how many times ln.Accept() has failed
  lpc,         \* startTCPProxy: "accept" (at ln.Accept()), "go" (at the go statement)
  conn,        \* the loop's conn
  started,     \* how many handlers the loop has started
  handlers,    \* per handler: [pc, clientConn, proxyHeader, br, c2b, b2c]
  backends     \* per handler, its backendConn: [st, got, gotEOF, sock]

acceptVars == << clients, ln, acceptErrs, lpc, conn, started, handlers, backends >>

vars == << codecVars, tcpVars, authVars, acceptVars >>

AcceptIdle ==
  /\ clients = << >>
  /\ ln = << >>
  /\ acceptErrs = 0
  /\ lpc = "accept"
  /\ conn = 0
  /\ started = 0
  /\ handlers = << >>
  /\ backends = << >>

TcpIdle ==
  /\ cPlan = [H |-> << >>, B |-> << >>]
  /\ cSent = 0
  /\ cState = "closed"
  /\ remoteAddr = NoAddr
  /\ localAddr = NoAddr
  /\ sock = << >>
  /\ buf = << >>
  /\ pc = "closed"
  /\ ret = "done"
  /\ proxyHeader = NilHeader
  /\ bState = "none"
  /\ bIn = << >>
  /\ bInEOF = FALSE
  /\ bPlan = << >>
  /\ bSent = 0
  /\ bsock = << >>
  /\ cIn = << >>
  /\ cInEOF = FALSE
  /\ c2b = "idle"
  /\ b2c = "idle"

\* NumServers: how many session servers are configured (len(servers))
NumServers == 2

Servers == 1..NumServers

\* a body of len bytes, each of them the byte `byte`
EmptyBody == [byte |-> 0, len |-> 0]

\* authResult{}
ZeroResult == [Err |-> FALSE, StatusCode |-> 0, Body |-> EmptyBody, Server |-> 0]

\* no request: also what is left of r once handleHasJoined has read its query
NoRequest == [method |-> "", path |-> << >>, rawQuery |-> ""]

AuthIdle ==
  /\ req = NoRequest
  /\ query = ""
  /\ upstream = << >>
  /\ ppc = << >>
  /\ resultCh = << >>
  /\ ctxDone = FALSE
  /\ dpc = "done"
  /\ result = ZeroResult
  /\ remaining = 0
  /\ lastResult = ZeroResult
  /\ resp = << >>
  /\ taken = << >>
  /\ arrived = << >>
  /\ inTime = {}

StreamCases ==
  { [kind |-> "wf", H |-> h, B |-> b, src |-> NoAddr, dst |-> NoAddr] :
      h \in WellFormedHeaders, b \in Payloads }
    \cup { [kind |-> "raw", H |-> << >>, B |-> s, src |-> NoAddr, dst |-> NoAddr] :
             s \in NonHeaderStreams }
    \cup { [kind |-> "bad", H |-> << >>, B |-> s, src |-> NoAddr, dst |-> NoAddr] :
             s \in MalformedStreams }
    \cup { [kind |-> "v1tok", H |-> s, B |-> << >>, src |-> NoAddr, dst |-> NoAddr] :
             s \in V1TokenLines }
    \cup { [kind |-> "v1line", H |-> << >>, B |-> s \o p, src |-> NoAddr,
            dst |-> NoAddr] : s \in V1OtherLines, p \in { << >>, << 77 >> } }

BuildCases ==
  { [kind |-> "build", H |-> << >>, B |-> << >>, src |-> a, dst |-> b] :
      a \in TCPAddrs \cup { PipeAddr }, b \in TCPAddrs \cup { PipeAddr } }

NoResult == [hdr |-> NilHeader, err |-> "", rd |-> NewReader(<< >>, TRUE)]

CodecIdle ==
  /\ cdCase = [kind |-> "none", H |-> << >>, B |-> << >>, src |-> NoAddr, dst |-> NoAddr]
  /\ cdPc = "end"
  /\ cdStream = << >>
  /\ cdRes = NoResult
  /\ cdRest = << >>

InitCodec ==
  /\ TcpIdle
  /\ AuthIdle
  /\ AcceptIdle
  /\ cdCase \in StreamCases \cup BuildCases
  /\ cdPc = IF cdCase.kind = "build" THEN "build" ELSE "detect"
  /\ cdStream = cdCase.H \o cdCase.B
  /\ cdRes = NoResult
  /\ cdRest = << >>

CodecBuild ==
  /\ cdPc = "build"
  /\ cdStream' = buildProxyV2Header(cdCase.src, cdCase.dst)
  /\ cdPc' = "detect"
  /\ UNCHANGED << cdCase, cdRes, cdRest, tcpVars, authVars, acceptVars >>

CodecDetect ==
  /\ cdPc = "detect"
  /\ cdRes' = detectProxyProtocol(NewReader(cdStream, TRUE))
  /\ cdPc' = "readall"
  /\ UNCHANGED << cdCase, cdStream, cdRest, tcpVars, authVars, acceptVars >>

CodecReadAll ==
  /\ cdPc = "readall"
  /\ cdRest' = ReadAll(cdRes.rd)
  /\ cdPc' = "end"
  /\ UNCHANGED << cdCase, cdStream, cdRes, tcpVars, authVars, acceptVars >>

NextCodec == CodecBuild \/ CodecDetect \/ CodecReadAll

SpecCodec == InitCodec /\ [][NextCodec]_vars

(***************************************************************************)
(* The TCP forwarder: handleConnection for one accepted connection.        *)
(***************************************************************************)
\* "HELLO_MC"
HelloMC == << 72, 69, 76, 76, 79, 95, 77, 67 >>

\* "PROXY UNKNOWN\n": a v1 line without its CR
V1NoCR == << 80, 82, 79, 88, 89, 32, 85, 78, 75, 78, 79, 87, 78, 10 >>

\* the v2 signature with version nibble 1 and a full AF_INET block
V2BadVersion == MkV2(17, 17, IPv4A \o IPv4B \o PutBE16(1) \o PutBE16(2))

\* what a client may mean to send: a well-formed header H and a payload B, or
\* no header (H = << >>) and any bytes B.  A client that stops early sends a
\* prefix of H \o B, so truncated headers are among the streams.
TcpPlans ==
  { [H |-> V1Unknown, B |-> << 77, 67 >>],
    [H |-> V2Inet, B |-> << 77 >>],
    [H |-> V2Local, B |-> proxyV1Prefix],
    [H |-> V1Tcp4, B |-> << >>],
    [H |-> << >>, B |-> HelloMC],
    [H |-> << >>, B |-> McHandshake],
    [H |-> << >>, B |-> V1NoCR],
    [H |-> << >>, B |-> V2BadVersion] }

\* (RemoteAddr, LocalAddr) of the accepted connection
ConnAddrs ==
  { << [tcp |-> TRUE, IP |-> To16(IPv4A), Port |-> 49152],
       [tcp |-> TRUE, IP |-> To16(IPv4B), Port |-> 25565] >>,
    << [tcp |-> TRUE, IP |-> IPv6A, Port |-> 65535],
       [tcp |-> TRUE, IP |-> IPv6B, Port |-> 25565] >> }

\* "RE": what the backend may answer
BackendReply == << 82, 69 >>

PlanBytes == cPlan.H \o cPlan.B

Init ==
  /\ CodecIdle
  /\ AuthIdle
  /\ AcceptIdle
  /\ cPlan \in TcpPlans
  /\ cSent = 0
  /\ cState = "open"
  /\ \E a \in ConnAddrs : remoteAddr = a[1] /\ localAddr = a[2]
  /\ sock = << >>
  /\ buf = << >>
  /\ pc = "detect"
  /\ ret = ""
  /\ proxyHeader = NilHeader
  /\ bState = "none"
  /\ bIn = << >>
  /\ bInEOF = FALSE
  /\ bPlan = BackendReply
  /\ bSent = 0
  /\ bsock = << >>
  /\ cIn = << >>
  /\ cInEOF = FALSE
  /\ c2b = "idle"
  /\ b2c = "idle"

\* what a client's socket may hold when detection runs: a prefix of a stream
ClientStreams ==
  UNION { { Take(p.H \o p.B, n) : n \in 0..Len(p.H \o p.B) } : p \in TcpPlans }

\* detectProxyProtocol(br) for br = bufio.NewReaderSize(clientConn,
\* peekBufferSize), tabulated by what clientConn holds and whether its stream
\* has ended; reads wait while the client's socket is open and empty
detectOnConn ==
  [s \in ClientStreams, e \in BOOLEAN |-> detectProxyProtocol(NewReader(s, e))]

\* detection whose error is not returned on: the handler goes on to dial
Detect_ignoresErr ==
  /\ pc = "detect"
  /\ \E r \in { detectOnConn[sock, cState # "open"] } :
         /\ ~r.rd.blk
         /\ buf' = r.rd.buf
         /\ sock' = r.rd.src
         /\ proxyHeader' = r.hdr
         /\ pc' = "dial"
  /\ UNCHANGED << cPlan, cSent, cState, remoteAddr, localAddr, ret, cInEOF, bState,
                  bIn, bInEOF, bPlan, bSent, bsock, cIn, c2b, b2c, codecVars,
                  authVars, acceptVars >>

\* proxyHeader, err := detectProxyProtocol(br); on error the handler returns
\* and the deferred clientConn.Close() runs
Detect ==
  /\ pc = "detect"
  /\ \E r \in { detectOnConn[sock, cState # "open"] } :
         /\ ~r.rd.blk
         /\ buf' = r.rd.buf
         /\ sock' = r.rd.src
         /\ proxyHeader' = r.hdr
         /\ IF r.err # ""
            THEN pc' = "closed" /\ ret' = "detect" /\ cInEOF' = TRUE
            ELSE pc' = "dial" /\ UNCHANGED << ret, cInEOF >>
  /\ UNCHANGED << cPlan, cSent, cState, remoteAddr, localAddr, bState, bIn, bInEOF,
                  bPlan, bSent, bsock, cIn, c2b, b2c, codecVars,
                  authVars, acceptVars >>

\* a handler that starts the backend->client copy as soon as the dial has
\* succeeded, before the header is written
DialOK_splicesEarly ==
  /\ pc = "dial"
  /\ pc' = "header"
  /\ bState' = "open"
  /\ b2c' = "run"
  /\ UNCHANGED << cPlan, cSent, cState, remoteAddr, localAddr, sock, buf, ret,
                  proxyHeader, bIn, bInEOF, bPlan, bSent, bsock, cIn, cInEOF, c2b,
                  codecVars,
                  authVars, acceptVars >>

\* net.DialTimeout succeeds
DialOK ==
  /\ pc = "dial"
  /\ pc' = "header"
  /\ bState' = "open"
  /\ UNCHANGED << cPlan, cSent, cState, remoteAddr, localAddr, sock, buf, ret,
                  proxyHeader, bIn, bInEOF, bPlan, bSent, bsock, cIn, cInEOF, c2b,
                  b2c, codecVars,
                  authVars, acceptVars >>

\* net.DialTimeout fails: the handler returns, closing the client
DialFail ==
  /\ pc = "dial"
  /\ pc' = "closed"
  /\ ret' = "dial"
  /\ cInEOF' = TRUE
  /\ UNCHANGED << cPlan, cSent, cState, remoteAddr, localAddr, sock, buf,
                  proxyHeader, bState, bIn, bInEOF, bPlan, bSent, bsock, cIn, c2b,
                  b2c, codecVars,
                  authVars, acceptVars >>

\* handleConnection building a header of its own whatever was detected
HeaderToSend_alwaysBuilt == buildProxyV2Header(remoteAddr, localAddr)

\* the header handleConnection sends: the detected header as it came, or one
\* built from the connection's addresses
HeaderToSend ==
  IF proxyHeader.Version # 0
  THEN proxyHeader.RawBytes
  ELSE buildProxyV2Header(remoteAddr, localAddr)

\* handleConnection writing the header a second time
WriteHeader_twice ==
  /\ pc = "header"
  /\ bIn' = bIn \o HeaderToSend \o HeaderToSend
  /\ pc' = "splice"
  /\ c2b' = "run"
  /\ b2c' = "run"
  /\ UNCHANGED << cPlan, cSent, cState, remoteAddr, localAddr, sock, buf, ret,
                  proxyHeader, bState, bInEOF, bPlan, bSent, bsock, cIn, cInEOF,
                  codecVars,
                  authVars, acceptVars >>

\* backendConn.Write(header) succeeds; both copy goroutines start
WriteHeader ==
  /\ pc = "header"
  /\ bIn' = bIn \o HeaderToSend
  /\ pc' = "splice"
  /\ c2b' = "run"
  /\ b2c' = "run"
  /\ UNCHANGED << cPlan, cSent, cState, remoteAddr, localAddr, sock, buf, ret,
                  proxyHeader, bState, bInEOF, bPlan, bSent, bsock, cIn, cInEOF,
                  codecVars,
                  authVars, acceptVars >>

\* backendConn.Write(header) fails (the backend has gone): the handler returns
\* and the deferred Close calls run
WriteHeaderFail ==
  /\ pc = "header"
  /\ bState = "closed"
  /\ pc' = "closed"
  /\ ret' = "header"
  /\ cInEOF' = TRUE
  /\ bInEOF' = TRUE
  /\ UNCHANGED << cPlan, cSent, cState, remoteAddr, localAddr, sock, buf,
                  proxyHeader, bState, bIn, bPlan, bSent, bsock, cIn, c2b, b2c,
                  codecVars,
                  authVars, acceptVars >>

\* a copy from clientConn instead of br: the bytes br holds never leave it
C2BCopy_fromConn ==
  /\ c2b = "run"
  /\ buf # << >> \/ sock # << >>
  /\ bIn' = bIn \o sock
  /\ sock' = << >>
  /\ buf' = << >>
  /\ UNCHANGED << cPlan, cSent, cState, remoteAddr, localAddr, pc, ret,
                  proxyHeader, bState, bInEOF, bPlan, bSent, bsock, cIn, cInEOF,
                  c2b, b2c, codecVars,
                  authVars, acceptVars >>

\* io.Copy(backendConn, br), one round: br's buffered bytes first, then what
\* the client's socket delivers
C2BCopy ==
  /\ c2b = "run"
  /\ buf # << >> \/ sock # << >>
  /\ IF buf # << >>
     THEN bIn' = bIn \o buf /\ buf' = << >> /\ UNCHANGED sock
     ELSE bIn' = bIn \o sock /\ sock' = << >> /\ UNCHANGED buf
  /\ UNCHANGED << cPlan, cSent, cState, remoteAddr, localAddr, pc, ret,
                  proxyHeader, bState, bInEOF, bPlan, bSent, bsock, cIn, cInEOF,
                  c2b, b2c, codecVars,
                  authVars, acceptVars >>

\* io.Copy(backendConn, br): the write fails, the bytes read for it are lost;
\* the goroutine ends with CloseWrite
C2BWriteFail ==
  /\ c2b = "run"
  /\ buf # << >> \/ sock # << >>
  /\ bState = "closed"
  /\ IF buf # << >> THEN buf' = << >> /\ UNCHANGED sock
                    ELSE sock' = << >> /\ UNCHANGED buf
  /\ c2b' = "failed"
  /\ bInEOF' = TRUE
  /\ UNCHANGED << cPlan, cSent, cState, remoteAddr, localAddr, pc, ret,
                  proxyHeader, bState, bIn, bPlan, bSent, bsock, cIn, cInEOF, b2c,
                  codecVars,
                  authVars, acceptVars >>

\* the client-to-backend goroutine ending without backendConn.CloseWrite()
C2BEOF_noCloseWrite ==
  /\ c2b = "run"
  /\ buf = << >> /\ sock = << >>
  /\ cState # "open"
  /\ c2b' = "done"
  /\ UNCHANGED << cPlan, cSent, cState, remoteAddr, localAddr, sock, buf, pc, ret,
                  proxyHeader, bState, bIn, bInEOF, bPlan, bSent, bsock, cIn,
                  cInEOF, b2c, codecVars,
                  authVars, acceptVars >>

\* the client-to-backend goroutine closing backendConn at the client's EOF:
\* the other copy's read fails
C2BEOF_closesConn ==
  /\ c2b = "run"
  /\ buf = << >> /\ sock = << >>
  /\ cState # "open"
  /\ c2b' = "done"
  /\ bInEOF' = TRUE
  /\ b2c' = "failed"
  /\ UNCHANGED << cPlan, cSent, cState, remoteAddr, localAddr, sock, buf, pc, ret,
                  proxyHeader, bState, bIn, bPlan, bSent, bsock, cIn, cInEOF,
                  codecVars, authVars, acceptVars >>

\* io.Copy(backendConn, br) reaches the client's EOF; backendConn.CloseWrite()
C2BEOF ==
  /\ c2b = "run"
  /\ buf = << >> /\ sock = << >>
  /\ cState # "open"
  /\ c2b' = "done"
  /\ bInEOF' = TRUE
  /\ UNCHANGED << cPlan, cSent, cState, remoteAddr, localAddr, sock, buf, pc, ret,
                  proxyHeader, bState, bIn, bPlan, bSent, bsock, cIn, cInEOF, b2c,
                  codecVars,
                  authVars, acceptVars >>

\* io.Copy(clientConn, backendConn), one round
B2CCopy ==
  /\ b2c = "run"
  /\ bsock # << >>
  /\ cIn' = cIn \o bsock
  /\ bsock' = << >>
  /\ UNCHANGED << cPlan, cSent, cState, remoteAddr, localAddr, sock, buf, pc, ret,
                  proxyHeader, bState, bIn, bInEOF, bPlan, bSent, cInEOF, c2b, b2c,
                  codecVars,
                  authVars, acceptVars >>

\* io.Copy(clientConn, backendConn): the write to a client that has gone fails
B2CWriteFail ==
  /\ b2c = "run"
  /\ bsock # << >>
  /\ cState = "closed"
  /\ bsock' = << >>
  /\ b2c' = "failed"
  /\ cInEOF' = TRUE
  /\ UNCHANGED << cPlan, cSent, cState, remoteAddr, localAddr, sock, buf, pc, ret,
                  proxyHeader, bState, bIn, bInEOF, bPlan, bSent, cIn, c2b,
                  codecVars,
                  authVars, acceptVars >>

\* io.Copy(clientConn, backendConn) reaches the backend's EOF;
\* clientConn.CloseWrite()
B2CEOF ==
  /\ b2c = "run"
  /\ bsock = << >>
  /\ bState \in { "shut", "closed" }
  /\ b2c' = "done"
  /\ cInEOF' = TRUE
  /\ UNCHANGED << cPlan, cSent, cState, remoteAddr, localAddr, sock, buf, pc, ret,
                  proxyHeader, bState, bIn, bInEOF, bPlan, bSent, bsock, cIn, c2b,
                  codecVars,
                  authVars, acceptVars >>

\* a wait that returns as soon as one of the two copies has ended
Finish_afterOne ==
  /\ pc = "splice"
  /\ c2b \in { "done", "failed" } \/ b2c \in { "done", "failed" }
  /\ pc' = "closed"
  /\ ret' = "done"
  /\ cInEOF' = TRUE
  /\ bInEOF' = TRUE
  /\ UNCHANGED << cPlan, cSent, cState, remoteAddr, localAddr, sock, buf,
                  proxyHeader, bState, bIn, bPlan, bSent, bsock, cIn, c2b, b2c,
                  codecVars, authVars, acceptVars >>

\* wg.Wait() returns; the handler returns and the deferred Close calls run
Finish ==
  /\ pc = "splice"
  /\ c2b \in { "done", "failed" }
  /\ b2c \in { "done", "failed" }
  /\ pc' = "closed"
  /\ ret' = "done"
  /\ cInEOF' = TRUE
  /\ bInEOF' = TRUE
  /\ UNCHANGED << cPlan, cSent, cState, remoteAddr, localAddr, sock, buf,
                  proxyHeader, bState, bIn, bPlan, bSent, bsock, cIn, c2b, b2c,
                  codecVars,
                  authVars, acceptVars >>

\* ---- the environment: the client and the backend ----

\* the client sends the next k bytes of its stream
ClientSend ==
  /\ cState = "open"
  /\ pc # "closed"
  /\ \E k \in 1..(Len(PlanBytes) - cSent) :
       /\ cSent' = cSent + k
       /\ sock' = sock \o SubSeq(PlanBytes, cSent + 1, cSent + k)
  /\ UNCHANGED << cPlan, cState, remoteAddr, localAddr, buf, pc, ret, proxyHeader,
                  bState, bIn, bInEOF, bPlan, bSent, bsock, cIn, cInEOF, c2b, b2c,
                  codecVars,
                  authVars, acceptVars >>

\* the client closes its write side: its stream ends with what it has sent
ClientShut ==
  /\ cState = "open"
  /\ pc # "closed"
  /\ cState' = "shut"
  /\ UNCHANGED << cPlan, cSent, remoteAddr, localAddr, sock, buf, pc, ret,
                  proxyHeader, bState, bIn, bInEOF, bPlan, bSent, bsock, cIn,
                  cInEOF, c2b, b2c, codecVars,
                  authVars, acceptVars >>

\* the client closes its socket altogether
ClientClose ==
  /\ cState \in { "open", "shut" }
  /\ pc # "closed"
  /\ cState' = "closed"
  /\ UNCHANGED << cPlan, cSent, remoteAddr, localAddr, sock, buf, pc, ret,
                  proxyHeader, bState, bIn, bInEOF, bPlan, bSent, bsock, cIn,
                  cInEOF, c2b, b2c, codecVars,
                  authVars, acceptVars >>

BackendSend ==
  /\ bState = "open"
  /\ pc # "closed"
  /\ \E k \in 1..(Len(bPlan) - bSent) :
       /\ bSent' = bSent + k
       /\ bsock' = bsock \o SubSeq(bPlan, bSent + 1, bSent + k)
  /\ UNCHANGED << cPlan, cSent, cState, remoteAddr, localAddr, sock, buf, pc, ret,
                  proxyHeader, bState, bIn, bInEOF, bPlan, cIn, cInEOF, c2b, b2c,
                  codecVars,
                  authVars, acceptVars >>

BackendShut ==
  /\ bState = "open"
  /\ pc # "closed"
  /\ bState' = "shut"
  /\ UNCHANGED << cPlan, cSent, cState, remoteAddr, localAddr, sock, buf, pc, ret,
                  proxyHeader, bIn, bInEOF, bPlan, bSent, bsock, cIn, cInEOF, c2b,
                  b2c, codecVars,
                  authVars, acceptVars >>

BackendClose ==
  /\ bState \in { "open", "shut" }
  /\ pc # "closed"
  /\ bState' = "closed"
  /\ UNCHANGED << cPlan, cSent, cState, remoteAddr, localAddr, sock, buf, pc, ret,
                  proxyHeader, bIn, bInEOF, bPlan, bSent, bsock, cIn, cInEOF, c2b,
                  b2c, codecVars,
                  authVars, acceptVars >>

Handler ==
  \/ Detect \/ DialOK \/ DialFail \/ WriteHeader \/ WriteHeaderFail
  \/ C2BCopy \/ C2BWriteFail \/ C2BEOF \/ B2CCopy \/ B2CWriteFail \/ B2CEOF
  \/ Finish

Environment ==
  \/ ClientSend \/ ClientShut \/ ClientClose
  \/ BackendSend \/ BackendShut \/ BackendClose

Next == Handler \/ Environment

Spec == Init /\ [][Next]_vars

\* the goroutines of handleConnection each keep running: the handler itself
\* (dialing ends within dialTimeout) and its two copy goroutines.  Nothing is
\* assumed of the client or the backend.
HandlerSteps ==
  Detect \/ DialOK \/ DialFail \/ WriteHeader \/ WriteHeaderFail \/ Finish

C2BSteps == C2BCopy \/ C2BWriteFail \/ C2BEOF

B2CSteps == B2CCopy \/ B2CWriteFail \/ B2CEOF

FairSpec ==
  Spec /\ WF_vars(HandlerSteps) /\ WF_vars(C2BSteps) /\ WF_vars(B2CSteps)

(***************************************************************************)
(* The multiauth fan-out: handleHasJoined for one request.                 *)
(***************************************************************************)
StatusOK == 200

StatusNoContent == 204

StatusBadRequest == 400

\* io.LimitReader(resp.Body, 64*1024)
bodyLimit == 65536

\* a limit that lets one byte more through
LimitRead_oneMore(body) ==
  IF Min(body.len, bodyLimit + 1) = 0
  THEN EmptyBody
  ELSE [byte |-> body.byte, len |-> Min(body.len, bodyLimit + 1)]

\* io.ReadAll(io.LimitReader(body, bodyLimit)) with no limit
LimitRead_unbounded(body) == body

\* io.ReadAll(io.LimitReader(body, bodyLimit)): the first bodyLimit bytes
LimitRead(body) ==
  IF Min(body.len, bodyLimit) = 0
  THEN EmptyBody
  ELSE [byte |-> body.byte, len |-> Min(body.len, bodyLimit)]

\* a client that follows redirects: a 3xx answer is replaced by the answer of
\* its Location, taken to be a 200 with the same body
clientDo_following(u) ==
  IF u.status \in 300..399 THEN [u EXCEPT !.status = 200] ELSE u

\* client.Do(req) with CheckRedirect returning http.ErrUseLastResponse: the
\* answer of the server itself, a 3xx included
clientDo(u) == u

\* what the session server i may do with a request.  "resp": it answers with
\* status and body; "connfail": client.Do fails; "readfail": it answers, the
\* body cannot be read; "hang": it does not answer; "badurl": the URL built
\* from the server's base does not parse.
UpstreamPlans(i) ==
  { [kind |-> "resp", status |-> 200, body |-> [byte |-> 64 + i, len |-> 3]],
    [kind |-> "resp", status |-> 200, body |-> [byte |-> 64 + i, len |-> bodyLimit + 1]],
    [kind |-> "resp", status |-> 200, body |-> EmptyBody],
    [kind |-> "resp", status |-> 204, body |-> EmptyBody],
    [kind |-> "resp", status |-> 302, body |-> [byte |-> 64 + i, len |-> 3]],
    [kind |-> "readfail", status |-> 200, body |-> [byte |-> 64 + i, len |-> 3]],
    [kind |-> "connfail", status |-> 0, body |-> EmptyBody],
    [kind |-> "hang", status |-> 0, body |-> EmptyBody],
    [kind |-> "badurl", status |-> 0, body |-> EmptyBody] }

\* "/session/minecraft/hasJoined"
hasJoinedPath ==
  << 47, 115, 101, 115, 115, 105, 111, 110, 47, 109, 105, 110, 101, 99, 114, 97,
     102, 116, 47, 104, 97, 115, 74, 111, 105, 110, 101, 100 >>

\* "/health"
healthPath == << 47, 104, 101, 97, 108, 116, 104 >>

\* "hasJoined"
StrHasJoined == << 104, 97, 115, 74, 111, 105, 110, 101, 100 >>

StatusNotFound == 404

\* strings.Contains
Contains(s, substr) ==
  \E k \in 0..(Len(s) - Len(substr)) : SubSeq(s, k + 1, k + Len(substr)) = substr

RECURSIVE CleanSegs(_, _)
\* path.Clean on the "/"-separated elements of a rooted path: empty and "."
\* elements are dropped, ".." removes the element before it (none at the root)
CleanSegs(segs, out) ==
  IF segs = << >> THEN out
  ELSE LET e == segs[1]
           rest == Drop(segs, 1)
       IN  IF e = << >> \/ e = << 46 >> THEN CleanSegs(rest, out)
           ELSE IF e = << 46, 46 >>
                THEN CleanSegs(rest, SubSeq(out, 1, Len(out) - 1))
                ELSE CleanSegs(rest, Append(out, e))

RECURSIVE JoinRooted(_)
JoinRooted(segs) ==
  IF segs = << >> THEN << >> ELSE << 47 >> \o segs[1] \o JoinRooted(Drop(segs, 1))

\* net/http cleanPath: the canonical form of a URL path, a trailing slash kept
cleanPath(p) ==
  IF p = << >> THEN << 47 >>
  ELSE LET q == IF p[1] # 47 THEN << 47 >> \o p ELSE p
           segs == CleanSegs(Split(q, 47), << >>)
           np == IF segs = << >> THEN << 47 >> ELSE JoinRooted(segs)
       IN  IF q[Len(q)] = 47 /\ np # << 47 >> THEN np \o << 47 >> ELSE np

\* ServeMux with the patterns hasJoinedPath, "/health" and "/": a request
\* whose path is not in canonical form is redirected to the canonical one;
\* a pattern without a trailing slash matches its path only, whatever the
\* method, and "/" matches every other path
muxHandler(r) ==
  IF cleanPath(r.path) # r.path THEN "redirect"
  ELSE IF r.path = hasJoinedPath THEN "hasJoined"
  ELSE IF r.path = healthPath THEN "health"
  ELSE "catchall"

\* the handler of the catch-all takes r for a hasJoined request
looksLikeHasJoined(r) == Contains(r.path, StrHasJoined)

Methods == { "GET", "POST" }

Queries == { "", "username=Steve&serverId=abc" }

\* the canonical path, the health path, paths that contain "hasJoined"
\* (one of them not in canonical form), one that differs in case only, and
\* paths without it
Paths ==
  { hasJoinedPath,
    healthPath,
    << 47, 97, 112, 105, 47, 104, 97, 115, 74, 111, 105, 110, 101, 100, 47, 120 >>,
    << 47, 47, 104, 97, 115, 74, 111, 105, 110, 101, 100 >>,
    << 47, 115, 101, 115, 115, 105, 111, 110, 47, 109, 105, 110, 101, 99, 114, 97, 102, 116, 47, 104, 97, 115, 106, 111, 105, 110, 101, 100 >>,
    << 47, 97, 47, 46, 46, 47, 104, 101, 97, 108, 116, 104 >>,
    << 47, 104, 101, 97, 108, 116, 104, 47 >>,
    << 47 >> }

Requests == [method : Methods, path : Paths, rawQuery : Queries]

\* the routing of each of these requests, computed once: the handler the
\* mux selects, the test of the catch-all, and the canonical path
muxTable ==
  { [r |-> r, handler |-> muxHandler(r), looks |-> looksLikeHasJoined(r),
     clean |-> cleanPath(r.path)] : r \in Requests }

\* the mux selects handler h for the request it is serving
Routed(h) == \E t \in muxTable : t.r = req /\ t.handler = h


InitAuth ==
  /\ CodecIdle
  /\ TcpIdle
  /\ AcceptIdle
  /\ req \in Requests
  /\ query = ""
  /\ upstream \in { f \in [Servers -> UNION { UpstreamPlans(i) : i \in Servers }] :
                      \A i \in Servers : f[i] \in UpstreamPlans(i) }
  /\ ppc = [i \in Servers |-> "idle"]
  /\ resultCh = << >>
  /\ ctxDone = FALSE
  /\ dpc = "mux"
  /\ result = ZeroResult
  /\ remaining = 0
  /\ lastResult = ZeroResult
  /\ resp = << >>
  /\ taken = << >>
  /\ arrived = << >>
  /\ inTime = {}

\* a channel one slot short of the number of servers
ResultChCap_short == NumServers - 1

\* make(chan authResult, len(servers))
ResultChCap == NumServers

\* resultCh <- r: handed to the handler when its select is waiting, buffered
\* when the channel has room, and waiting otherwise
Publish(r) ==
  /\ arrived' = Append(arrived, r)
  /\ IF dpc = "parked"
     THEN /\ result' = r
          /\ taken' = Append(taken, r)
          /\ dpc' = "got"
          /\ UNCHANGED resultCh
     ELSE /\ Len(resultCh) < ResultChCap
          /\ resultCh' = Append(resultCh, r)
          /\ UNCHANGED << result, taken, dpc >>

ErrResult(i) == [Err |-> TRUE, StatusCode |-> 0, Body |-> EmptyBody, Server |-> i]

\* what a handler of the mux leaves unchanged when it answers by itself
MuxAnswerFrame ==
  UNCHANGED << req, query, upstream, ppc, resultCh, ctxDone, result, remaining,
               lastResult, taken, arrived, inTime, codecVars, tcpVars, acceptVars >>

\* entering handleHasJoined(w, r, servers): query := r.URL.RawQuery
EnterHasJoined ==
  /\ query' = req.rawQuery
  /\ dpc' = "entry"
  /\ UNCHANGED << req, upstream, ppc, resultCh, ctxDone, result, remaining,
                  lastResult, resp, taken, arrived, inTime, codecVars, tcpVars, acceptVars >>

\* ServeMux: 301 Moved Permanently to the canonical path, the query kept
MuxRedirect ==
  /\ dpc = "mux"
  /\ Routed("redirect")
  /\ \E t \in muxTable :
       /\ t.r = req
       /\ resp' = Append(resp, [status |-> 301,
                                ctype |-> IF req.method = "GET"
                                          THEN "text/html; charset=utf-8" ELSE "",
                                text |-> IF req.method = "GET"
                                         THEN "Moved Permanently" ELSE "",
                                body |-> EmptyBody,
                                location |-> [path |-> t.clean,
                                              rawQuery |-> req.rawQuery]])
  /\ dpc' = "done"
  /\ MuxAnswerFrame

\* mux.HandleFunc(hasJoinedPath, ...)
ServeHasJoined ==
  /\ dpc = "mux"
  /\ Routed("hasJoined")
  /\ EnterHasJoined

\* mux.HandleFunc("/health", ...) for a method-restricted pattern
\* "GET /health": another method falls to the catch-all
ServeHealth_getOnly ==
  /\ dpc = "mux"
  /\ Routed("health")
  /\ resp' = Append(resp, IF req.method = "GET"
                          THEN [status |-> StatusOK,
                                ctype |-> "text/plain; charset=utf-8",
                                text |-> "ok", body |-> EmptyBody]
                          ELSE [status |-> StatusNotFound,
                                ctype |-> "text/plain; charset=utf-8",
                                text |-> "mc-dual-proxy multiauth server",
                                body |-> EmptyBody])
  /\ dpc' = "done"
  /\ MuxAnswerFrame

\* mux.HandleFunc("/health", ...): WriteHeader(200), "ok"; the content type
\* is the one net/http detects from the body
ServeHealth ==
  /\ dpc = "mux"
  /\ Routed("health")
  /\ resp' = Append(resp, [status |-> StatusOK,
                           ctype |-> "text/plain; charset=utf-8",
                           text |-> "ok", body |-> EmptyBody])
  /\ dpc' = "done"
  /\ MuxAnswerFrame

\* the catch-all without the test of the path
ServeCatchAll_always404 ==
  /\ dpc = "mux"
  /\ Routed("catchall")
  /\ resp' = Append(resp, [status |-> StatusNotFound,
                           ctype |-> "text/plain; charset=utf-8",
                           text |-> "mc-dual-proxy multiauth server",
                           body |-> EmptyBody])
  /\ dpc' = "done"
  /\ MuxAnswerFrame

\* mux.HandleFunc("/", ...): a path that contains "hasJoined" is handled as
\* a hasJoined request, any other is answered 404
ServeCatchAll ==
  /\ dpc = "mux"
  /\ Routed("catchall")
  /\ IF \E t \in muxTable : t.r = req /\ t.looks
     THEN EnterHasJoined
     ELSE /\ resp' = Append(resp, [status |-> StatusNotFound,
                                   ctype |-> "text/plain; charset=utf-8",
                                   text |-> "mc-dual-proxy multiauth server",
                                   body |-> EmptyBody])
          /\ dpc' = "done"
          /\ MuxAnswerFrame

\* http.Error, and the handler goes on as if the query were there
BadRequest_noReturn ==
  /\ dpc = "entry"
  /\ query = ""
  /\ resp' = Append(resp, [status |-> StatusBadRequest,
                           ctype |-> "text/plain; charset=utf-8",
                           text |-> "missing query parameters\n",
                           body |-> EmptyBody])
  /\ ppc' = [i \in Servers |-> "new"]
  /\ remaining' = NumServers
  /\ dpc' = "loop"
  /\ UNCHANGED << query, upstream, resultCh, ctxDone, result, lastResult,
                  taken, arrived, inTime, req, codecVars, tcpVars, acceptVars >>

\* http.Error(w, "missing query parameters", http.StatusBadRequest)
BadRequest ==
  /\ dpc = "entry"
  /\ query = ""
  /\ resp' = Append(resp, [status |-> StatusBadRequest,
                           ctype |-> "text/plain; charset=utf-8",
                           text |-> "missing query parameters\n",
                           body |-> EmptyBody])
  /\ dpc' = "done"
  /\ UNCHANGED << query, upstream, ppc, resultCh, ctxDone, result, remaining,
                  lastResult, taken, arrived, inTime, req,
                  codecVars, tcpVars, acceptVars >>

\* context.WithTimeout, make(chan authResult, len(servers)), one goroutine
\* per server, remaining := len(servers).  From here on the handler reads
\* query and the request's context only: r is followed no further.
FanOut ==
  /\ dpc = "entry"
  /\ query # ""
  /\ ppc' = [i \in Servers |-> "new"]
  /\ remaining' = NumServers
  /\ dpc' = "loop"
  /\ req' = NoRequest
  /\ UNCHANGED << query, upstream, resultCh, ctxDone, result, lastResult, resp,
                  taken, arrived, inTime, codecVars, tcpVars, acceptVars >>

\* http.NewRequestWithContext
ProbeNewRequest(i) ==
  /\ ppc[i] = "new"
  /\ IF upstream[i].kind = "badurl"
     THEN /\ ppc' = [ppc EXCEPT ![i] = "done"]
          /\ Publish(ErrResult(i))
     ELSE /\ ppc' = [ppc EXCEPT ![i] = "do"]
          /\ UNCHANGED << resultCh, result, taken, arrived, dpc >>
  /\ UNCHANGED << query, upstream, ctxDone, remaining, lastResult, resp, inTime,
                  req,
                  codecVars, tcpVars, acceptVars >>

\* client.Do(req) returns the server's response
ProbeDoOK(i) ==
  /\ ppc[i] = "do"
  /\ ~ctxDone
  /\ upstream[i].kind \in { "resp", "readfail" }
  /\ ppc' = [ppc EXCEPT ![i] = "read"]
  /\ UNCHANGED << query, upstream, resultCh, ctxDone, dpc, result, remaining,
                  lastResult, resp, taken, arrived, inTime, req,
                  codecVars, tcpVars, acceptVars >>

\* client.Do on a request made without the context: only the connection
\* can fail it
ProbeDoErr_ignoresCtx(i) ==
  /\ ppc[i] = "do"
  /\ upstream[i].kind = "connfail"
  /\ ppc' = [ppc EXCEPT ![i] = "done"]
  /\ Publish(ErrResult(i))
  /\ UNCHANGED << query, upstream, ctxDone, remaining, lastResult, resp, inTime,
                  req,
                  codecVars, tcpVars, acceptVars >>

\* client.Do(req) fails: the connection, or the request's context is done
ProbeDoErr(i) ==
  /\ ppc[i] = "do"
  /\ ctxDone \/ upstream[i].kind = "connfail"
  /\ ppc' = [ppc EXCEPT ![i] = "done"]
  /\ Publish(ErrResult(i))
  /\ UNCHANGED << query, upstream, ctxDone, remaining, lastResult, resp, inTime,
                  req,
                  codecVars, tcpVars, acceptVars >>

\* io.ReadAll(io.LimitReader(resp.Body, 64*1024)) succeeds; the result is sent
ProbeReadOK(i) ==
  /\ ppc[i] = "read"
  /\ ~ctxDone
  /\ upstream[i].kind = "resp"
  /\ ppc' = [ppc EXCEPT ![i] = "done"]
  /\ Publish([Err |-> FALSE, StatusCode |-> clientDo(upstream[i]).status,
              Body |-> LimitRead(clientDo(upstream[i]).body), Server |-> i])
  /\ inTime' = IF upstream[i].status = 200 /\ upstream[i].body.len > 0
               THEN inTime \cup { i }
               ELSE inTime
  /\ UNCHANGED << query, upstream, ctxDone, remaining, lastResult, resp,
                  req,
                  codecVars, tcpVars, acceptVars >>

\* a failed body read that returns without sending a result
ProbeReadErr_silent(i) ==
  /\ ppc[i] = "read"
  /\ ctxDone \/ upstream[i].kind = "readfail"
  /\ ppc' = [ppc EXCEPT ![i] = "done"]
  /\ UNCHANGED << query, upstream, resultCh, ctxDone, dpc, result, remaining,
                  lastResult, resp, taken, arrived, inTime, req,
                  codecVars, tcpVars, acceptVars >>

\* io.ReadAll fails: the connection, or the request's context is done
ProbeReadErr(i) ==
  /\ ppc[i] = "read"
  /\ ctxDone \/ upstream[i].kind = "readfail"
  /\ ppc' = [ppc EXCEPT ![i] = "done"]
  /\ Publish(ErrResult(i))
  /\ UNCHANGED << query, upstream, ctxDone, remaining, lastResult, resp, inTime,
                  req,
                  codecVars, tcpVars, acceptVars >>

\* the timer of context.WithTimeout fires; a select waiting on ctx.Done()
\* wakes on it
Deadline ==
  /\ dpc \in { "loop", "select", "parked", "got" }
  /\ ~ctxDone
  /\ ctxDone' = TRUE
  /\ dpc' = IF dpc = "parked" THEN "timeout" ELSE dpc
  /\ UNCHANGED << query, upstream, ppc, resultCh, result, remaining, lastResult,
                  resp, taken, arrived, inTime, req,
                  codecVars, tcpVars, acceptVars >>

\* for remaining > 0 {
LoopEnter ==
  /\ dpc = "loop"
  /\ remaining > 0
  /\ dpc' = "select"
  /\ UNCHANGED << query, upstream, ppc, resultCh, ctxDone, result, remaining,
                  lastResult, resp, taken, arrived, inTime, req,
                  codecVars, tcpVars, acceptVars >>

\* the loop ends with remaining = 0: w.WriteHeader(http.StatusNoContent);
\* the deferred cancel() runs
AllReported ==
  /\ dpc = "loop"
  /\ remaining = 0
  /\ resp' = Append(resp, [status |-> StatusNoContent, ctype |-> "", text |-> "",
                           body |-> EmptyBody])
  /\ ctxDone' = TRUE
  /\ dpc' = "done"
  /\ UNCHANGED << query, upstream, ppc, resultCh, result, remaining, lastResult,
                  taken, arrived, inTime, req,
                  codecVars, tcpVars, acceptVars >>

\* select: case result := <-resultCh, a result being buffered
SelectRecv ==
  /\ dpc = "select"
  /\ resultCh # << >>
  /\ result' = Head(resultCh)
  /\ resultCh' = Tail(resultCh)
  /\ taken' = Append(taken, Head(resultCh))
  /\ dpc' = "got"
  /\ UNCHANGED << query, upstream, ppc, ctxDone, remaining, lastResult, resp,
                  arrived, inTime, req,
                  codecVars, tcpVars, acceptVars >>

\* a select without its ctx.Done() case
SelectDone_missing ==
  /\ dpc = "select"
  /\ ctxDone
  /\ FALSE
  /\ UNCHANGED vars

\* select: case <-ctx.Done(), ctx being done (when a result is buffered as
\* well, the select takes either case)
SelectDone ==
  /\ dpc = "select"
  /\ ctxDone
  /\ dpc' = "timeout"
  /\ UNCHANGED << query, upstream, ppc, resultCh, ctxDone, result, remaining,
                  lastResult, resp, taken, arrived, inTime, req,
                  codecVars, tcpVars, acceptVars >>

\* select: no case is ready, the handler waits
Park ==
  /\ dpc = "select"
  /\ resultCh = << >>
  /\ ~ctxDone
  /\ dpc' = "parked"
  /\ UNCHANGED << query, upstream, ppc, resultCh, ctxDone, result, remaining,
                  lastResult, resp, taken, arrived, inTime, req,
                  codecVars, tcpVars, acceptVars >>

\* result.StatusCode == http.StatusOK with any body
isWin_statusOnly(r) == r.StatusCode = StatusOK

\* result.StatusCode == http.StatusOK && len(result.Body) > 0
isWin(r) == r.StatusCode = StatusOK /\ r.Body.len > 0

\* the body of case result := <-resultCh without its return: after a win the
\* loop goes on
HandleResult_noReturn ==
  /\ dpc = "got"
  /\ remaining' = remaining - 1
  /\ IF ~result.Err /\ isWin(result)
     THEN /\ resp' = Append(resp, [status |-> StatusOK, ctype |-> "application/json",
                                   text |-> "", body |-> result.Body])
          /\ UNCHANGED lastResult
     ELSE /\ lastResult' = result
          /\ UNCHANGED resp
  /\ dpc' = "loop"
  /\ UNCHANGED << query, upstream, ppc, resultCh, ctxDone, result, taken, arrived,
                  inTime, req,
                  codecVars, tcpVars, acceptVars >>

\* the body of case result := <-resultCh
HandleResult ==
  /\ dpc = "got"
  /\ remaining' = remaining - 1
  /\ IF result.Err
     THEN /\ lastResult' = result
          /\ dpc' = "loop"
          /\ UNCHANGED << ctxDone, resp >>
     ELSE IF isWin(result)
          THEN /\ ctxDone' = TRUE
               /\ resp' = Append(resp, [status |-> StatusOK,
                                        ctype |-> "application/json",
                                        text |-> "", body |-> result.Body])
               /\ dpc' = "done"
               /\ UNCHANGED lastResult
          ELSE /\ lastResult' = result
               /\ dpc' = "loop"
               /\ UNCHANGED << ctxDone, resp >>
  /\ UNCHANGED << query, upstream, ppc, resultCh, result, taken, arrived, inTime,
                  req,
                  codecVars, tcpVars, acceptVars >>

\* the body of case <-ctx.Done(): w.WriteHeader(http.StatusNoContent); return
HandleDone ==
  /\ dpc = "timeout"
  /\ resp' = Append(resp, [status |-> StatusNoContent, ctype |-> "", text |-> "",
                           body |-> EmptyBody])
  /\ ctxDone' = TRUE
  /\ dpc' = "done"
  /\ UNCHANGED << query, upstream, ppc, resultCh, result, remaining, lastResult,
                  taken, arrived, inTime, req,
                  codecVars, tcpVars, acceptVars >>

Probe(i) ==
  \/ ProbeNewRequest(i) \/ ProbeDoOK(i) \/ ProbeDoErr(i)
  \/ ProbeReadOK(i) \/ ProbeReadErr(i)

NextAuth ==
  \/ MuxRedirect \/ ServeHasJoined \/ ServeHealth \/ ServeCatchAll
  \/ BadRequest \/ FanOut \/ LoopEnter \/ AllReported
  \/ SelectRecv \/ SelectDone \/ Park \/ HandleResult \/ HandleDone
  \/ Deadline
  \/ \E i \in Servers : Probe(i)

SpecAuth == InitAuth /\ [][NextAuth]_vars

\* the goroutine of handleHasJoined keeps running; nothing is assumed of the
\* probes or of the session servers
DispatcherSteps ==
  \/ MuxRedirect \/ ServeHasJoined \/ ServeHealth \/ ServeCatchAll
  \/ BadRequest \/ FanOut \/ LoopEnter \/ AllReported
  \/ SelectRecv \/ SelectDone \/ Park \/ HandleResult \/ HandleDone

FairSpecAuth == SpecAuth /\ WF_vars(DispatcherSteps)

\* the goroutines of the probes keep running as well: while some step of
\* querySessionServer can be taken, one is taken
ProbeSteps == \E i \in Servers : Probe(i)

FairSpecProbes == FairSpecAuth /\ WF_vars(ProbeSteps)

(***************************************************************************)
(* startTCPProxy: the accept loop and its handlers.  A client connects,    *)
(* then sends its whole stream and closes its write side; the backend      *)
(* answers a dial, then sends its reply and closes.  A handler waits in    *)
(* detection for its client, in the dial and in the splice for the         *)
(* backend.                                                                *)
(***************************************************************************)
NumConns == 2

MaxAcceptErrs == 1

Conns == 1..NumConns

\* no connection
NoConn == 0

\* clientConn.RemoteAddr() and clientConn.LocalAddr() of client c's connection
RemoteAddrOf(c) == [tcp |-> TRUE, IP |-> To16(IPv4A), Port |-> 49152 + c]

LocalAddrOf(c) == [tcp |-> TRUE, IP |-> To16(IPv4B), Port |-> 25565]

\* what client c sends after its header, and what the backend sends on the
\* connection dialed by handler h
PayloadOf(c) == << 77, c >>

ReplyOf(h) == << 82, h >>

\* a "proxied" client sends "PROXY UNKNOWN\r\n" first, a "direct" one does not
StreamOf(kind, c) == (IF kind = "proxied" THEN V1Unknown ELSE << >>) \o PayloadOf(c)

\* the clients are direct and proxied in turn
KindOf(c) == IF c % 2 = 1 THEN "direct" ELSE "proxied"

NewClient(kind) ==
  [kind |-> kind, st |-> "idle", sock |-> << >>, got |-> << >>, gotEOF |-> FALSE,
   closed |-> FALSE]

NoHandler ==
  [pc |-> "none", clientConn |-> NoConn, proxyHeader |-> NilHeader, br |-> << >>,
   c2b |-> "idle", b2c |-> "idle"]

NoBackend == [st |-> "none", got |-> << >>, gotEOF |-> FALSE, sock |-> << >>]

InitAccept ==
  /\ CodecIdle
  /\ TcpIdle
  /\ AuthIdle
  /\ clients = [c \in Conns |-> NewClient(KindOf(c))]
  /\ ln = << >>
  /\ acceptErrs = 0
  /\ lpc = "accept"
  /\ conn = NoConn
  /\ started = 0
  /\ handlers = [h \in Conns |-> NoHandler]
  /\ backends = [h \in Conns |-> NoBackend]

\* client c's connection is established and waits in the listener's queue
ConnOpen(c) ==
  /\ clients[c].st = "idle"
  /\ clients' = [clients EXCEPT ![c].st = "connected"]
  /\ ln' = Append(ln, c)
  /\ UNCHANGED << acceptErrs, lpc, conn, started, handlers, backends,
                  codecVars, tcpVars, authVars >>

\* client c sends its stream and closes its write side
ConnSend(c) ==
  /\ clients[c].st = "connected"
  /\ ~clients[c].closed
  /\ clients' = [clients EXCEPT ![c].st = "shut",
                                ![c].sock = StreamOf(clients[c].kind, c)]
  /\ UNCHANGED << ln, acceptErrs, lpc, conn, started, handlers, backends,
                  codecVars, tcpVars, authVars >>

\* conn, err := ln.Accept() with err == nil
Accept ==
  /\ lpc = "accept"
  /\ ln # << >>
  /\ conn' = Head(ln)
  /\ ln' = Tail(ln)
  /\ lpc' = "go"
  /\ UNCHANGED << clients, acceptErrs, started, handlers, backends,
                  codecVars, tcpVars, authVars >>

\* an accept error that ends startTCPProxy
AcceptErr_fatal ==
  /\ lpc = "accept"
  /\ acceptErrs < MaxAcceptErrs
  /\ acceptErrs' = acceptErrs + 1
  /\ lpc' = "returned"
  /\ UNCHANGED << clients, ln, conn, started, handlers, backends,
                  codecVars, tcpVars, authVars >>

\* conn, err := ln.Accept() with err != nil: log.Printf; continue
AcceptErr ==
  /\ lpc = "accept"
  /\ acceptErrs < MaxAcceptErrs
  /\ acceptErrs' = acceptErrs + 1
  /\ UNCHANGED << clients, ln, lpc, conn, started, handlers, backends,
                  codecVars, tcpVars, authVars >>

\* handleConnection(conn, cfg.BackendAddr) called in the loop's own goroutine:
\* the loop goes on once the handler has returned
Go_inline ==
  \/ /\ lpc = "go"
     /\ started' = started + 1
     /\ handlers' = [handlers EXCEPT ![started + 1] =
                       [NoHandler EXCEPT !.pc = "detect", !.clientConn = conn]]
     /\ lpc' = "call"
     /\ UNCHANGED << clients, ln, acceptErrs, conn, backends,
                     codecVars, tcpVars, authVars >>
  \/ /\ lpc = "call"
     /\ handlers[started].pc = "closed"
     /\ lpc' = "accept"
     /\ UNCHANGED << clients, ln, acceptErrs, conn, started, handlers, backends,
                     codecVars, tcpVars, authVars >>

\* go handleConnection(conn, cfg.BackendAddr): the handler starts with the
\* value conn has now, br := bufio.NewReaderSize(clientConn, peekBufferSize)
Go ==
  /\ lpc = "go"
  /\ started' = started + 1
  /\ handlers' = [handlers EXCEPT ![started + 1] =
                    [NoHandler EXCEPT !.pc = "detect", !.clientConn = conn]]
  /\ lpc' = "accept"
  /\ UNCHANGED << clients, ln, acceptErrs, conn, backends,
                  codecVars, tcpVars, authVars >>

\* a handler that uses the loop's conn instead of its own argument
clientConnOf_shared(h) == conn

\* clientConn of handler h
clientConnOf(h) == handlers[h].clientConn

\* detectProxyProtocol(br) for br = bufio.NewReaderSize(clientConn,
\* peekBufferSize), tabulated by what clientConn holds and whether its stream
\* has ended
detectTable ==
  { [s |-> s, e |-> e, r |-> detectProxyProtocol(NewReader(s, e))] :
      s \in { << >> } \cup { StreamOf(k, c) : k \in { "direct", "proxied" }, c \in Conns },
      e \in BOOLEAN }

\* proxyHeader, err := detectProxyProtocol(br); on an error the handler
\* returns and the deferred clientConn.Close() runs
HDetect(h) ==
  /\ handlers[h].pc = "detect"
  /\ \E c \in { clientConnOf(h) } :
     \E t \in detectTable :
     \E r \in { t.r } :
         /\ t.s = clients[c].sock
         /\ t.e = (clients[c].st = "shut")
         /\ ~r.rd.blk
         /\ handlers' = [handlers EXCEPT ![h].proxyHeader = r.hdr,
                                         ![h].br = r.rd.buf,
                                         ![h].pc = IF r.err # "" THEN "closed" ELSE "dial"]
         /\ clients' = [clients EXCEPT ![c].sock = r.rd.src,
                                       ![c].closed = (r.err # "")]
  /\ UNCHANGED << ln, acceptErrs, lpc, conn, started, backends,
                  codecVars, tcpVars, authVars >>

\* the backend answers the dial of handler h: it accepts or refuses
BackendAnswer(h) ==
  /\ handlers[h].pc = "dial"
  /\ backends[h].st = "none"
  /\ \E a \in { "open", "refused" } : backends' = [backends EXCEPT ![h].st = a]
  /\ UNCHANGED << clients, ln, acceptErrs, lpc, conn, started, handlers,
                  codecVars, tcpVars, authVars >>

\* backendConn, err := net.DialTimeout("tcp", backendAddr, dialTimeout); on an
\* error the handler returns and the deferred clientConn.Close() runs
HDial(h) ==
  /\ handlers[h].pc = "dial"
  /\ backends[h].st \in { "open", "refused" }
  /\ IF backends[h].st = "refused"
     THEN /\ handlers' = [handlers EXCEPT ![h].pc = "closed"]
          /\ clients' = [clients EXCEPT ![clientConnOf(h)].closed = TRUE]
     ELSE /\ handlers' = [handlers EXCEPT ![h].pc = "header"]
          /\ UNCHANGED clients
  /\ UNCHANGED << ln, acceptErrs, lpc, conn, started, backends,
                  codecVars, tcpVars, authVars >>

\* backendConn.Write(proxyHeader.RawBytes), or the header built from
\* clientConn.RemoteAddr() and clientConn.LocalAddr(); then the two copies start
HHeader(h) ==
  /\ handlers[h].pc = "header"
  /\ backends' = [backends EXCEPT ![h].got =
        @ \o (IF handlers[h].proxyHeader.Version # 0
              THEN handlers[h].proxyHeader.RawBytes
              ELSE buildProxyV2Header(RemoteAddrOf(clientConnOf(h)),
                                      LocalAddrOf(clientConnOf(h))))]
  /\ handlers' = [handlers EXCEPT ![h].pc = "splice", ![h].c2b = "run", ![h].b2c = "run"]
  /\ UNCHANGED << clients, ln, acceptErrs, lpc, conn, started,
                  codecVars, tcpVars, authVars >>

\* io.Copy(backendConn, br) up to the client's EOF, then tc.CloseWrite() on
\* backendConn
HC2B(h) ==
  /\ handlers[h].pc = "splice"
  /\ handlers[h].c2b = "run"
  /\ clients[clientConnOf(h)].st = "shut"
  /\ backends' = [backends EXCEPT ![h].got = @ \o handlers[h].br
                                                 \o clients[clientConnOf(h)].sock,
                                  ![h].gotEOF = TRUE]
  /\ clients' = [clients EXCEPT ![clientConnOf(h)].sock = << >>]
  /\ handlers' = [handlers EXCEPT ![h].br = << >>, ![h].c2b = "done"]
  /\ UNCHANGED << ln, acceptErrs, lpc, conn, started,
                  codecVars, tcpVars, authVars >>

\* the backend sends its reply on the connection of handler h and closes it
BackendReplies(h) ==
  /\ backends[h].st = "open"
  /\ handlers[h].pc \in { "header", "splice" }
  /\ backends' = [backends EXCEPT ![h].st = "closed", ![h].sock = ReplyOf(h)]
  /\ UNCHANGED << clients, ln, acceptErrs, lpc, conn, started, handlers,
                  codecVars, tcpVars, authVars >>

\* io.Copy(clientConn, backendConn) up to the backend's EOF, then
\* tc.CloseWrite() on clientConn
HB2C(h) ==
  /\ handlers[h].pc = "splice"
  /\ handlers[h].b2c = "run"
  /\ backends[h].st = "closed"
  /\ clients' = [clients EXCEPT ![clientConnOf(h)].got = @ \o backends[h].sock,
                                ![clientConnOf(h)].gotEOF = TRUE]
  /\ backends' = [backends EXCEPT ![h].sock = << >>]
  /\ handlers' = [handlers EXCEPT ![h].b2c = "done"]
  /\ UNCHANGED << ln, acceptErrs, lpc, conn, started,
                  codecVars, tcpVars, authVars >>

\* wg.Wait() returns; the deferred backendConn.Close() and clientConn.Close()
HFinish(h) ==
  /\ handlers[h].pc = "splice"
  /\ handlers[h].c2b = "done"
  /\ handlers[h].b2c = "done"
  /\ handlers' = [handlers EXCEPT ![h].pc = "closed"]
  /\ clients' = [clients EXCEPT ![clientConnOf(h)].closed = TRUE]
  /\ UNCHANGED << ln, acceptErrs, lpc, conn, started, backends,
                  codecVars, tcpVars, authVars >>

\* startTCPProxy's loop
AcceptSteps == Accept \/ AcceptErr \/ Go

\* handleConnection of handler h
HandleConnection(h) ==
  HDetect(h) \/ HDial(h) \/ HHeader(h) \/ HC2B(h) \/ HB2C(h) \/ HFinish(h)

ConnHandlers == \E h \in Conns : HandleConnection(h)

NextAccept ==
  \/ AcceptSteps
  \/ ConnHandlers
  \/ \E c \in Conns : ConnOpen(c) \/ ConnSend(c)
  \/ \E h \in Conns : BackendAnswer(h) \/ BackendReplies(h)

SpecAccept == InitAccept /\ [][NextAccept]_vars

\* the goroutines of the loop and of the handlers keep running; nothing is
\* assumed of the clients or of the backend
FairSpecAccept == SpecAccept /\ WF_vars(AcceptSteps) /\ WF_vars(ConnHandlers)

(***************************************************************************)
(* Codec claims (checked under SpecCodec).                                 *)
(***************************************************************************)
\* what the reader still holds, buffered or not
Unread(rd) == rd.buf \o rd.src

CodecDetected == cdPc \in { "readall", "end" }

\* C5: for every well-formed v1 or v2 header H followed by arbitrary bytes B,
\* detectProxyProtocol on H \o B returns, without error, a header whose
\* RawBytes is exactly H, having consumed exactly Len(H) bytes: the reader is
\* left holding B, its next Read yields the first byte of B, and io.ReadAll
\* yields B.
C5_DetectWellFormed ==
  (cdCase.kind = "wf" /\ CodecDetected) =>
    /\ cdRes.err = ""
    /\ cdRes.hdr.Version = (IF cdCase.H \in V1Headers THEN 1 ELSE 2)
    /\ cdRes.hdr.RawBytes = cdCase.H
    /\ Unread(cdRes.rd) = cdCase.B
    /\ (cdCase.B # << >> => Read(cdRes.rd, 1).data = << cdCase.B[1] >>)
    /\ (cdPc = "end" => cdRest = cdCase.B)

C5_Witness ==
  /\ cdCase.kind = "wf" /\ cdPc = "end"
  /\ cdCase.H = V2InetTLV /\ cdCase.B = proxyV1Prefix
  /\ cdRest = proxyV1Prefix

\* C6: for every byte string S that begins neither with "PROXY " nor with the
\* v2 signature (S shorter than 6 bytes and S empty included),
\* detectProxyProtocol returns no header and no error and consumes nothing:
\* the reader still holds S and io.ReadAll yields S in full.
C6_DetectLeavesStream ==
  (cdCase.kind = "raw" /\ CodecDetected) =>
    /\ cdRes.hdr = NilHeader
    /\ cdRes.err = ""
    /\ Unread(cdRes.rd) = cdCase.B
    /\ (cdPc = "end" => cdRest = cdCase.B)

C6_Witness ==
  /\ cdCase.kind = "raw" /\ cdPc = "end"
  /\ Len(cdCase.B) \in 1..5
  /\ cdRest = cdCase.B

\* C7: for every pair of TCP addresses (src, dst), IPv4, IPv6 or mixed, with
\* ports in 0..65535, detectProxyProtocol on buildProxyV2Header(src, dst)
\* returns without error a version-2 header whose addresses are the same IPs
\* as src and dst and whose ports are their ports, and consumes the whole
\* header.
C7_BuildDetectRoundTrip ==
  (cdCase.kind = "build" /\ cdCase.src.tcp /\ cdCase.dst.tcp /\ CodecDetected) =>
    /\ cdRes.err = ""
    /\ cdRes.hdr.Version = 2
    /\ IPEqual(cdRes.hdr.SrcAddr, cdCase.src.IP)
    /\ IPEqual(cdRes.hdr.DstAddr, cdCase.dst.IP)
    /\ cdRes.hdr.SrcPort = cdCase.src.Port
    /\ cdRes.hdr.DstPort = cdCase.dst.Port
    /\ cdRes.hdr.RawBytes = cdStream
    /\ Unread(cdRes.rd) = << >>
    /\ (cdPc = "end" => cdRest = << >>)

C7_Witness ==
  /\ cdCase.kind = "build" /\ cdPc = "end"
  /\ cdCase.src.IP = IPv4A /\ cdCase.dst.IP = IPv6B
  /\ cdCase.src.Port = 65535 /\ cdCase.dst.Port = 256
  /\ Len(cdStream) = 52
  /\ cdRes.hdr.SrcPort = 65535

\* the first line of a stream, its terminator included (the whole stream when
\* it has no LF)
FirstLine(s) == IF IndexByte(s, LF) = 0 THEN s ELSE Take(s, IndexByte(s, LF))

EndsWithCRLF(l) == Len(l) >= 2 /\ l[Len(l)] = LF /\ l[Len(l) - 1] = CR

\* the space-separated tokens of a line, its CR LF taken off
Tokens(l) == Split(TrimRight(l, { CR, LF }), SP)

\* "PROXY"
StrPROXY == << 80, 82, 79, 88, 89 >>

\* "TCP4", "TCP6"
StrTCP4 == << 84, 67, 80, 52 >>

StrTCP6 == << 84, 67, 80, 54 >>

\* the two shapes of a v1 line
V1Shape(l) ==
  /\ EndsWithCRLF(l)
  /\ \/ Tokens(l) = << StrPROXY, StrUNKNOWN >>
     \/ /\ Len(Tokens(l)) = 6
        /\ Tokens(l)[1] = StrPROXY
        /\ Tokens(l)[2] \in { StrTCP4, StrTCP6 }

\* C20 as stated: of the streams that begin with "PROXY ", those whose first
\* line is CR LF terminated and is either the two tokens PROXY UNKNOWN or six
\* tokens with PROXY first and TCP4 or TCP6 second yield a version-1 header;
\* every other one yields an error and no header.
C20_AsStated ==
  (CodecDetected /\ IsPrefix(proxyV1Prefix, cdStream)) =>
     IF V1Shape(FirstLine(cdStream))
     THEN cdRes.err = "" /\ cdRes.hdr.Version = 1
     ELSE cdRes.err # "" /\ cdRes.hdr = NilHeader

\* an optionally signed run of decimal digits
IsDecimal(tok) ==
  LET body == IF tok # << >> /\ tok[1] \in { 43, 45 } THEN Drop(tok, 1) ELSE tok
  IN  body # << >> /\ \A i \in 1..Len(body) : IsDigit(body[i])

\* the value of the optionally signed run of digits a token begins with; 0
\* when it begins with none
LeadingValue(tok) ==
  LET neg  == tok # << >> /\ tok[1] = 45
      body == IF tok # << >> /\ tok[1] \in { 43, 45 } THEN Drop(tok, 1) ELSE tok
      v    == DecVal(Take(body, SpanLen(body, 48..57)))
  IN  IF neg THEN 0 - v ELSE v

\* "1.2.3.4"
StrAddr1234 == << 49, 46, 50, 46, 51, 46, 52 >>

V1TokenCase == cdCase.kind = "v1tok" /\ CodecDetected

\* the header is returned as valid with the whole line as RawBytes, and an
\* address token that is no IP gives an absent address
V1LaxHeader ==
  /\ cdRes.err = ""
  /\ cdRes.hdr.Version = 1
  /\ cdRes.hdr.RawBytes = cdStream
  /\ Unread(cdRes.rd) = << >>
  /\ IF Tokens(cdStream)[3] = StrAddr1234
     THEN IPEqual(cdRes.hdr.SrcAddr, << 1, 2, 3, 4 >>)
     ELSE cdRes.hdr.SrcAddr = << >>
  /\ IPEqual(cdRes.hdr.DstAddr, IPv4B)

\* what C21 states of one port
PortAsStated(tok, port) ==
  IF IsDecimal(tok)
  THEN LeadingValue(tok) \in 0..65535 => port = LeadingValue(tok)
  ELSE port = 0

V2Length(h) == h[15] * 256 + h[16]

V2Family(h) == h[14] \div 16

V2Case == cdCase.kind = "wf" /\ cdCase.H \in V2Headers /\ CodecDetected

NoAddresses(hdr) ==
  hdr.SrcAddr = << >> /\ hdr.DstAddr = << >> /\ hdr.SrcPort = 0 /\ hdr.DstPort = 0

\* C22: on a v2 header with version nibble 2, whatever its command nibble,
\* parseProxyV2 returns a valid header having consumed exactly 16 + L bytes,
\* L the big-endian value of bytes 14-15, with RawBytes those 16 + L bytes
\* (TLVs included); addresses and ports are set from the 4+4+2+2 layout when
\* the family is 1 and L >= 12, from the 16+16+2+2 layout when the family is
\* 2 and L >= 36, and absent for any other family or a shorter block.
C22_ParseV2 ==
  V2Case =>
    LET h == cdCase.H
        L == V2Length(h)
        blk == Drop(h, 16)
    IN  /\ cdRes.err = ""
        /\ cdRes.hdr.Version = 2
        /\ cdRes.hdr.RawBytes = Take(cdStream, 16 + L)
        /\ Len(cdRes.hdr.RawBytes) = 16 + L
        /\ Unread(cdRes.rd) = Drop(cdStream, 16 + L)
        /\ IF V2Family(h) = 1 /\ L >= 12
           THEN /\ cdRes.hdr.SrcAddr = SubSeq(blk, 1, 4)
                /\ cdRes.hdr.DstAddr = SubSeq(blk, 5, 8)
                /\ cdRes.hdr.SrcPort = blk[9] * 256 + blk[10]
                /\ cdRes.hdr.DstPort = blk[11] * 256 + blk[12]
           ELSE IF V2Family(h) = 2 /\ L >= 36
           THEN /\ cdRes.hdr.SrcAddr = SubSeq(blk, 1, 16)
                /\ cdRes.hdr.DstAddr = SubSeq(blk, 17, 32)
                /\ cdRes.hdr.SrcPort = blk[33] * 256 + blk[34]
                /\ cdRes.hdr.DstPort = blk[35] * 256 + blk[36]
           ELSE NoAddresses(cdRes.hdr)

\* an AF_INET6 header with a TLV and command nibble 0, bytes after it
C22_Witness ==
  /\ V2Case
  /\ cdCase.H = V2Inet6TLV
  /\ cdCase.B # << >>
  /\ Len(cdRes.hdr.RawBytes) = 55
  /\ cdRes.hdr.SrcAddr = IPv6B
  /\ cdRes.hdr.SrcPort = 256
  /\ cdRes.hdr.DstPort = 255
  /\ Unread(cdRes.rd) = cdCase.B

\* the address is an IPv4 one, in 4 bytes or as ::ffff:a.b.c.d in 16
IsIPv4(ip) ==
  \/ Len(ip) = 4
  \/ Len(ip) = 16 /\ Take(ip, 10) = Zeros(10) /\ ip[11] = 255 /\ ip[12] = 255

\* its 4-byte form and its 16-byte form
Form4(ip) == SubSeq(ip, Len(ip) - 3, Len(ip))

Form16(ip) == IF Len(ip) = 4 THEN Zeros(10) \o << 255, 255 >> \o ip ELSE ip

PortBytes(p) == << p \div 256, p % 256 >>

BuildCase == cdCase.kind = "build" /\ cdPc # "build"

\* C24: buildProxyV2Header gives one of three layouts: 28 bytes (signature,
\* 0x21, 0x11, length 12, the two IPv4 addresses, the two ports big-endian)
\* when both addresses are TCP with IPv4 IPs; 52 bytes (signature, 0x21,
\* 0x21, length 36, both addresses in 16 bytes, the ports) when both are TCP
\* and an IP is not IPv4; 16 bytes (signature, 0x20, 0x00, length 0) when an
\* address is not TCP.  Bytes 14-15 give the number of bytes after them.
C24_BuildLayouts ==
  BuildCase =>
    LET s == cdCase.src
        d == cdCase.dst
        h == cdStream
    IN  /\ IF ~s.tcp \/ ~d.tcp
           THEN h = proxyV2Sig \o << 32, 0, 0, 0 >>
           ELSE IF IsIPv4(s.IP) /\ IsIPv4(d.IP)
           THEN h = proxyV2Sig \o << 33, 17, 0, 12 >> \o Form4(s.IP) \o Form4(d.IP)
                      \o PortBytes(s.Port) \o PortBytes(d.Port)
           ELSE h = proxyV2Sig \o << 33, 33, 0, 36 >> \o Form16(s.IP) \o Form16(d.IP)
                      \o PortBytes(s.Port) \o PortBytes(d.Port)
        /\ Len(h) \in { 16, 28, 52 }
        /\ h[15] * 256 + h[16] = Len(h) - 16

\* an IPv4 address held in 16 bytes with an IPv6 peer: the 52-byte layout
C24_Witness ==
  /\ BuildCase
  /\ cdCase.src.IP = To16(IPv4B)
  /\ cdCase.dst.IP = IPv6A
  /\ cdCase.src.Port = 25565
  /\ Len(cdStream) = 52
  /\ SubSeq(cdStream, 17, 32) = Zeros(10) \o << 255, 255 >> \o IPv4B

(***************************************************************************)
(* Forwarder claims (checked under Spec and FairSpec).                     *)
(***************************************************************************)
\* the bytes the client has sent so far
ClientStream == Take(PlanBytes, cSent)

\* the client's bytes after the header detection took from them (nothing when
\* no header was detected)
ClientPayload == Drop(ClientStream, Len(proxyHeader.RawBytes))

\* the one header a connection's backend is to see
ExpectedHeader ==
  IF proxyHeader.Version # 0
  THEN Take(ClientStream, Len(proxyHeader.RawBytes))
  ELSE buildProxyV2Header(remoteAddr, localAddr)

Spliced == pc = "splice" \/ ret = "done"

\* C1: handleConnection writes one PROXY header to the backend, the detected
\* header's raw bytes or a synthesized v2 header, as the very first thing it
\* writes, and whatever else it writes is client payload: nothing is written
\* before the header write, and from then on the backend's input is that one
\* header followed by client payload bytes only.
C1_OneHeaderFirst ==
  /\ ~Spliced => bIn = << >>
  /\ Spliced =>
       /\ Take(bIn, Len(ExpectedHeader)) = ExpectedHeader
       /\ IsPrefix(Drop(bIn, Len(ExpectedHeader)), ClientPayload)

C1_Witness ==
  /\ ret = "done"
  /\ proxyHeader.Version = 1
  /\ bIn = cPlan.H \o cPlan.B
  /\ cPlan.B # << >>

\* C2: in every state of a connection the payload the backend has received
\* after the header is a prefix of the bytes the client sent after its
\* detected or absent header; the bytes the buffered reader holds after
\* detection are sent first, and until a write to the backend fails the
\* payload delivered, the reader's buffer and the socket's unread bytes make
\* up exactly what the client sent, all of it delivered once the copy ends.
C2_PayloadPrefix ==
  /\ Spliced => IsPrefix(Drop(bIn, Len(HeaderToSend)), ClientPayload)
  /\ pc \in { "dial", "header" } => buf \o sock = ClientPayload
  /\ c2b = "run" => Drop(bIn, Len(HeaderToSend)) \o buf \o sock = ClientPayload
  /\ c2b = "done" => Drop(bIn, Len(HeaderToSend)) = ClientPayload

C2_Witness ==
  /\ c2b = "run"
  /\ buf # << >>
  /\ sock # << >>
  /\ Drop(bIn, Len(HeaderToSend)) = << >>

EnvFault == ret \in { "dial", "header" } \/ bState = "closed"

\* C3: when the client's stream begins with a well-formed v1 or v2 header and
\* the client closes its write side, then, unless the dial or a write to the
\* backend fails, the backend ends up having received exactly the client's
\* stream, that header byte for byte (no synthesized header before or after
\* it) and then every later byte in order, and then EOF.
C3_PassThrough ==
  (cState = "shut" /\ cPlan.H # << >> /\ cSent >= Len(cPlan.H))
    ~> (EnvFault \/ (bInEOF /\ bIn = ClientStream))

C3_Witness ==
  /\ cState = "shut"
  /\ cPlan.H \in V2Headers
  /\ cSent = Len(PlanBytes)
  /\ bInEOF
  /\ bIn = cPlan.H \o cPlan.B
  /\ bState = "open"

NoHeader(stream) == ~IsPrefix(proxyV1Prefix, stream) /\ ~IsPrefix(proxyV2Sig, stream)

\* what the backend reads off its connection: the header in front, the rest
BackendView == detectProxyProtocol(NewReader(bIn, TRUE))

SynthesizedDelivered ==
  /\ bInEOF
  /\ BackendView.err = ""
  /\ BackendView.hdr.Version = 2
  /\ IPEqual(BackendView.hdr.SrcAddr, remoteAddr.IP)
  /\ BackendView.hdr.SrcPort = remoteAddr.Port
  /\ IPEqual(BackendView.hdr.DstAddr, localAddr.IP)
  /\ BackendView.hdr.DstPort = localAddr.Port
  /\ Unread(BackendView.rd) = ClientStream

\* C4: when the client's stream has no PROXY header and the client closes its
\* write side, then, unless the dial or a write to the backend fails, the
\* backend ends up having received one v2 header whose source is the
\* connection's remote address and port and whose destination is its local
\* address and port, then all the client's bytes in order, then EOF.
C4_Synthesized ==
  (cState = "shut" /\ NoHeader(ClientStream))
    ~> (EnvFault \/ SynthesizedDelivered)

C4_Witness ==
  /\ cState = "shut"
  /\ cPlan.H = << >>
  /\ cSent = Len(PlanBytes)
  /\ proxyHeader.Version = 0
  /\ SynthesizedDelivered
  /\ bState = "open"

(***************************************************************************)
(* Fan-out claims (checked under SpecAuth).                                *)
(***************************************************************************)
\* a result with status 200 and a non-empty body
Winning(r) == ~r.Err /\ r.StatusCode = 200 /\ r.Body.len > 0

Responded == dpc = "done" /\ query # ""

First64K(body) == [byte |-> body.byte, len |-> IF body.len > 65536 THEN 65536 ELSE body.len]

C9_NoWin204 ==
  (Responded /\ inTime = {}) =>
    resp = << [status |-> 204, ctype |-> "", text |-> "", body |-> EmptyBody] >>

C9_Witness ==
  /\ Responded
  /\ inTime = {}
  /\ remaining = 0
  /\ Len(taken) = NumServers
  /\ taken[1].Err
  /\ ~taken[2].Err /\ taken[2].StatusCode = 200
  /\ resp[1].status = 204

\* C10: a request gets exactly one response on every path (none before the
\* handler returns, one from then on); a winning result is the last result
\* the handler receives; results are received in the order they were sent;
\* and a 200 response carries the body of the first winning result sent,
\* whatever is sent after it.
C10_OneResponse ==
  /\ Len(resp) <= 1
  /\ (dpc = "done") <=> (Len(resp) = 1)
  /\ taken \o resultCh = arrived
  /\ \A k \in 1..Len(taken) : Winning(taken[k]) => k = Len(taken)
  /\ (Responded /\ resp[1].status = 200) =>
       /\ taken # << >>
       /\ Winning(taken[Len(taken)])
       /\ resp[1].body = arrived[Len(taken)].Body
       /\ \A k \in 1..(Len(taken) - 1) : ~Winning(arrived[k])

C10_Witness ==
  /\ dpc = "done"
  /\ Len(resp) = 1
  /\ resp[1].status = 200
  /\ resultCh # << >>
  /\ Winning(resultCh[1])
  /\ resp[1].body # resultCh[1].Body

\* the scope is done while the handler has not returned: its deadline fired
ScopeDoneEarly == ctxDone /\ dpc # "done"

NoWin(results) == \A k \in 1..Len(results) : ~Winning(results[k])

Answered204 ==
  /\ dpc = "done"
  /\ resp = << [status |-> 204, ctype |-> "", text |-> "", body |-> EmptyBody] >>

C12_ScopeCancelled ==
  /\ [](Responded => ctxDone)
  /\ [][dpc = "done" => (taken' = taken /\ resp' = resp /\ dpc' = "done")]_vars
  /\ Responded ~> (\A i \in Servers : ppc[i] = "done")

C12_Witness ==
  /\ Responded
  /\ resp[1].status = 200
  /\ \A i \in Servers : ppc[i] = "done"
  /\ resultCh # << >>
  /\ resultCh[Len(resultCh)].Err
  /\ \E i \in Servers : upstream[i].kind = "hang"

\* C16: a half-close travels through the splice on its own.  Once the
\* client has closed its write side the backend comes to see EOF, the copy
\* from the backend is not ended by it, and what the backend sends is still
\* delivered to the client; and the same with client and backend exchanged.
\* A copy ends only at the end of its own source's stream or when its writes
\* fail.
C16_HalfClose ==
  /\ (pc = "splice" /\ cState = "shut") ~> (bInEOF \/ bState = "closed")
  /\ (pc = "splice" /\ bState = "shut") ~> (cInEOF \/ cState = "closed")
  /\ [][(b2c = "run" /\ b2c' # "run") => (bState # "open" \/ cState = "closed")]_vars
  /\ [][(c2b = "run" /\ c2b' # "run") => (cState # "open" \/ bState = "closed")]_vars
  /\ (c2b = "done" /\ cState = "shut")
       ~> (cState = "closed" \/ cIn = Take(bPlan, bSent))
  /\ (b2c = "done" /\ bState = "shut")
       ~> (bState = "closed" \/ Drop(bIn, Len(HeaderToSend)) = ClientPayload)

C16_Witness ==
  /\ cState = "shut"
  /\ c2b = "done"
  /\ bInEOF
  /\ bState = "open"
  /\ b2c = "run"
  /\ bSent = Len(bPlan)
  /\ cIn = bPlan
  /\ cIn # << >>
  /\ ~cInEOF

\* the handler has returned before the splice, the client closed, no backend
\* connection ever made, nothing written to one, no copy started
ReturnedEarly ==
  /\ pc = "closed"
  /\ cInEOF
  /\ bState = "none"
  /\ bIn = << >>
  /\ ~bInEOF
  /\ c2b = "idle"
  /\ b2c = "idle"

\* C17: the handler takes the detect-error return exactly when
\* detectProxyProtocol returns an error; after that return and after the
\* return on a failed dial the client is closed, no backend connection
\* exists, no header and no client byte has been written to one and no copy
\* has been started, and nothing of this changes afterwards.
C17_ErrorReturns ==
  /\ [](ret \in { "detect", "dial" } => ReturnedEarly)
  /\ [][(pc = "detect" /\ pc' # "detect") =>
          (detectOnConn[sock, cState # "open"].err # "" <=> ret' = "detect")]_vars
  /\ [][(ret \in { "detect", "dial" }) =>
          (UNCHANGED << ret, pc, bState, bIn, c2b, b2c >>)]_vars

C17_Witness ==
  /\ ret = "detect"
  /\ ReturnedEarly
  /\ cSent = Len(PlanBytes)
  /\ cSent > 0

CopyEnded(c) == c \in { "done", "failed" }

\* C18: the handler closes its two sockets only when no copy is running: it
\* stays in the splice, closing nothing, while a copy runs, and once both
\* copies have ended (at EOF or on an error) it goes on to return, which
\* closes the client's and the backend's socket.
C18_CloseAfterBoth ==
  /\ [](pc = "closed" => (c2b # "run" /\ b2c # "run"))
  /\ []((c2b = "run" \/ b2c = "run") => (pc = "splice" /\ ret = ""))
  /\ [](ret = "done" => (CopyEnded(c2b) /\ CopyEnded(b2c) /\ cInEOF /\ bInEOF))
  /\ (CopyEnded(c2b) /\ CopyEnded(b2c)) ~> (pc = "closed" /\ ret = "done")

C18_Witness ==
  /\ ret = "done"
  /\ pc = "closed"
  /\ c2b = "done"
  /\ b2c = "failed"
  /\ bIn # << >>

\* a direct client that has sent at least 6 and fewer than 16 bytes, no PROXY
\* prefix among them, and holds its connection open, detection pending
ShortDirectClient ==
  /\ pc = "detect"
  /\ cState = "open"
  /\ cSent >= Len(proxyV1Prefix)
  /\ cSent < 16
  /\ NoHeader(ClientStream)

\* C19 as stated: while such a client neither sends more nor closes, the
\* handler comes to dial the backend and forwards the synthesized header
\* and the client's bytes (unless the dial or a write to the backend fails).
C19_AsStated ==
  ShortDirectClient
    ~> \/ cState # "open"
       \/ cSent >= 16
       \/ EnvFault
       \/ bIn = buildProxyV2Header(remoteAddr, localAddr) \o ClientStream

\* the stream begins with the v2 signature and its byte 12 has a high nibble
\* other than 2
BadVersion(s) == IsPrefix(proxyV2Sig, s) /\ Len(s) > 12 /\ s[13] \div 16 # 2

\* the stream is a v2 header of version 2 that ended before its address
\* block was complete
TruncatedBlock(s) ==
  /\ cState # "open"
  /\ IsPrefix(proxyV2Sig, s)
  /\ Len(s) >= 16
  /\ s[13] \div 16 = 2
  /\ Len(s) < 16 + s[15] * 256 + s[16]

\* C23 as stated: when the client's stream begins with the v2 signature and
\* byte 12 has a high nibble other than 2, or the stream ended before the
\* address block was complete, detection fails, the handler closes the
\* client and nothing is forwarded.
C23_AsStated ==
  (pc # "detect" /\ (BadVersion(ClientStream) \/ TruncatedBlock(ClientStream))) =>
     /\ ret = "detect"
     /\ ReturnedEarly
     /\ proxyHeader = NilHeader

\* C23 (amended): when the stream holds at least 16 bytes, begins with the
\* v2 signature and byte 12 has a high nibble other than 2, detection fails
\* with the version error; when it is a version-2 header that ended before
\* its address block was complete, detection fails; in both cases the
\* handler closes the client and nothing is forwarded.  A stream that begins
\* with the signature and ended with fewer than 16 bytes is no error: no
\* header is detected and the handler goes on as for a direct client.
C23_V2Rejected ==
  /\ (pc = "detect" /\ BadVersion(sock) /\ Len(sock) >= 16) =>
        /\ detectOnConn[sock, cState # "open"].err = "proxy v2: unexpected version"
        /\ detectOnConn[sock, cState # "open"].hdr = NilHeader
  /\ (pc # "detect" /\ ((BadVersion(ClientStream) /\ Len(ClientStream) >= 16)
                         \/ TruncatedBlock(ClientStream))) =>
        /\ ret = "detect"
        /\ ReturnedEarly
        /\ proxyHeader = NilHeader
  /\ (pc # "detect" /\ IsPrefix(proxyV2Sig, ClientStream) /\ Len(ClientStream) < 16) =>
        /\ cState # "open"
        /\ ret # "detect"
        /\ proxyHeader = NilHeader

C23_Witness ==
  /\ ret = "detect"
  /\ ReturnedEarly
  /\ cState = "open"
  /\ ClientStream = V2BadVersion

(***************************************************************************)
(* Claims about the HTTP front (startMultiauth).                           *)
(***************************************************************************)
\* the path of r is the canonical path or contains "hasJoined"
HasJoinedKind(r) == r.path = hasJoinedPath \/ Contains(r.path, StrHasJoined)

\* the path of r is in the canonical form of net/http
Canonical(r) == cleanPath(r.path) = r.path

NoProbeStarted == \A i \in Servers : ppc[i] = "idle"

Answer400 ==
  [status |-> 400, ctype |-> "text/plain; charset=utf-8",
   text |-> "missing query parameters\n", body |-> EmptyBody]

AnswerOk ==
  [status |-> 200, ctype |-> "text/plain; charset=utf-8", text |-> "ok",
   body |-> EmptyBody]

Answer404 ==
  [status |-> 404, ctype |-> "text/plain; charset=utf-8",
   text |-> "mc-dual-proxy multiauth server", body |-> EmptyBody]

\* the one response is a 301 to the canonical form of the request's path,
\* with the request's query
Redirected(rs, r) ==
  /\ Len(rs) = 1
  /\ rs[1].status = 301
  /\ rs[1].location = [path |-> cleanPath(r.path), rawQuery |-> r.rawQuery]

DispatchedToFanOut ==
  /\ dpc' = "entry"
  /\ query' = req.rawQuery
  /\ resp' = resp
  /\ req' = req

SentBy(i) == { k \in 1..Len(arrived) : arrived[k].Server = i }

\* C25: a probe that has returned has sent exactly one result, whichever
\* way it returned (request construction error, request error or
\* cancellation, body read error, response), and a probe that has not
\* returned has sent none: no probe sends twice, none returns without sending.
C25_OneResultPerProbe ==
  dpc \notin { "mux", "entry" } /\ query # "" =>
    \A i \in Servers :
      /\ ppc[i] # "idle"
      /\ Cardinality(SentBy(i)) = (IF ppc[i] = "done" THEN 1 ELSE 0)
      /\ \A k \in SentBy(i) :
           CASE upstream[i].kind = "badurl" -> arrived[k].Err
             [] upstream[i].kind \in { "connfail", "hang", "readfail" } -> arrived[k].Err
             [] OTHER -> arrived[k].Err \/ arrived[k].StatusCode = upstream[i].status

\* all four ways of returning in one fan-out cannot be had with two servers;
\* here one probe's body read failed and the other was cancelled
C25_Witness ==
  /\ \A i \in Servers : ppc[i] = "done"
  /\ Len(arrived) = NumServers
  /\ \E i \in Servers : upstream[i].kind = "readfail" /\ ~ctxDone
  /\ \E i \in Servers : upstream[i].kind = "badurl"
\* the fan-out of one hasJoined request has been started
FannedOut == dpc \notin { "mux", "entry" } /\ query # ""

\* C26: the result channel never holds more results than there are servers, a
\* probe that has yet to send always finds the handler waiting or a free slot
\* (also once the handler has returned), remaining is the number of servers
\* minus the results the handler has taken and counted, and the handler never
\* takes more results than there are servers.
C26_ChannelAndCounter ==
  FannedOut =>
    /\ Len(resultCh) <= NumServers
    /\ \A i \in Servers :
         ppc[i] \in { "new", "do", "read" } =>
           dpc = "parked" \/ Len(resultCh) < ResultChCap
    /\ remaining = NumServers - Len(taken) + (IF dpc = "got" THEN 1 ELSE 0)
    /\ remaining >= 0
    /\ Len(taken) <= NumServers
    /\ Len(taken) + Len(resultCh) = Len(arrived)

\* the handler has returned on the first result, the other probes have sent
\* theirs afterwards and the channel holds them all
C26_Witness ==
  /\ dpc = "done"
  /\ FannedOut
  /\ Len(taken) = 1
  /\ Len(resultCh) = NumServers - 1
  /\ remaining = NumServers - 1
  /\ \A i \in Servers : ppc[i] = "done"
\* a result that is not a win: an error, a status other than 200, or a 200
\* with an empty body
Losing(r) == r.Err \/ r.StatusCode # 200 \/ r.Body.len = 0

\* the handler writes a response in this step
Responds == resp' # resp

\* C27: a 3xx answer of a session server is reported with its own status; a
\* step taken while the handler holds a result that is an error, a non-200
\* status or a 200 with an empty body writes no response, and the handler's
\* own step on it records it in lastResult and goes back to the loop; a 204
\* is written only at the end of the loop, every server having reported
\* without a win, or in the ctx.Done() case after the deadline.
C27_LosersNeverAnswer ==
  [][ FannedOut =>
        /\ \A k \in 1..Len(arrived) :
             (~arrived[k].Err /\ upstream[arrived[k].Server].status \in 300..399) =>
               arrived[k].StatusCode = upstream[arrived[k].Server].status
        /\ (dpc = "got" /\ Losing(result)) =>
             /\ ~Responds
             /\ dpc' \in { "got", "loop" }
             /\ dpc' = "loop" => lastResult' = result /\ remaining' = remaining - 1
        /\ (Responds /\ resp'[Len(resp')].status = StatusNoContent) =>
             \/ /\ dpc = "loop"
                /\ Len(taken) = NumServers
                /\ NoWin(taken)
             \/ /\ dpc = "timeout"
                /\ ctxDone
                /\ NoWin(taken) ]_vars

\* a 302 and a 200 with an empty body have both been taken and recorded, and
\* the 204 was written once the last of them had been counted
C27_Witness ==
  /\ Answered204
  /\ FannedOut
  /\ Len(taken) = NumServers
  /\ \E k \in 1..Len(taken) : ~taken[k].Err /\ taken[k].StatusCode = 302
  /\ \E k \in 1..Len(taken) :
       ~taken[k].Err /\ taken[k].StatusCode = 200 /\ taken[k].Body.len = 0
  /\ lastResult = taken[Len(taken)]
\* the result sent for server i's answer carries a cut body
Truncated(r) == ~r.Err /\ upstream[r.Server].body.len > 65536

\* C28: the body of every result sent, and of every response written, is at
\* most 65536 bytes; the body of a result is the first 65536 bytes of what
\* the server sent, all of it when it is no longer than that; and once the
\* handler has returned after taking a 200 whose body was cut, the response
\* is that 200 with the cut body.
C28_BodyLimit ==
  FannedOut =>
    /\ \A k \in 1..Len(arrived) :
         /\ arrived[k].Body.len <= 65536
         /\ ~arrived[k].Err =>
              /\ arrived[k].Body.len =
                   (IF upstream[arrived[k].Server].body.len > 65536
                    THEN 65536 ELSE upstream[arrived[k].Server].body.len)
              /\ arrived[k].Body.len > 0 =>
                   arrived[k].Body.byte = upstream[arrived[k].Server].body.byte
    /\ \A n \in 1..Len(resp) : resp[n].body.len <= 65536
    /\ \A k \in 1..Len(taken) :
         (dpc = "done" /\ Truncated(taken[k]) /\ taken[k].StatusCode = 200) =>
           /\ Len(resp) = 1
           /\ resp[1].status = 200
           /\ resp[1].body = taken[k].Body
           /\ resp[1].body.len = 65536

\* a 200 of 65537 bytes has been cut to 65536 and answered
C28_Witness ==
  /\ Responded
  /\ Len(resp) = 1
  /\ resp[1].status = 200
  /\ resp[1].body.len = 65536
  /\ \E k \in 1..Len(taken) :
       Truncated(taken[k]) /\ upstream[taken[k].Server].body.len = 65537
(***************************************************************************)
(* Claims about the accept loop (checked under SpecAccept and              *)
(* FairSpecAccept).                                                        *)
(***************************************************************************)
\* the handlers started for client c's connection
HandlersOf(c) == { h \in 1..started : handlers[h].clientConn = c }

\* C29: startTCPProxy never leaves its loop, an accept error included, and
\* never waits for a handler; no connection gets two handlers; every
\* connection that has reached the listener is accepted and handed to a
\* handler of its own, and every connection whose client has sent gets through
\* detection, whatever the other handlers are waiting for.
C29_AcceptNeverDelayed ==
  /\ [](lpc \in { "accept", "go" })
  /\ [](\A c \in Conns : Cardinality(HandlersOf(c)) <= 1)
  /\ \A c \in Conns :
       (clients[c].st # "idle") ~> (HandlersOf(c) # {})
  /\ \A c \in Conns :
       (clients[c].st = "shut") ~>
         (\E h \in HandlersOf(c) : handlers[h].pc \notin { "none", "detect" })

\* an Accept has failed, the loop has gone on and started a handler for every
\* connection; the first handler is still waiting for its client while a
\* later one has finished
C29_Witness ==
  /\ acceptErrs > 0
  /\ started = NumConns
  /\ lpc = "accept"
  /\ handlers[1].pc = "detect"
  /\ handlers[NumConns].pc = "closed"
  /\ clients[handlers[NumConns].clientConn].got = ReplyOf(NumConns)
\* what client c has sent so far
SentOf(c) == IF clients[c].st = "shut" THEN StreamOf(clients[c].kind, c) ELSE << >>

\* the header the backend is to get for client c: the client's own when it
\* sent one, else the one built from the addresses of c's connection
HeaderFor(c) ==
  IF clients[c].kind = "proxied"
  THEN V1Unknown
  ELSE buildProxyV2Header(RemoteAddrOf(c), LocalAddrOf(c))

IsSuffix(s, t) == Len(s) <= Len(t) /\ SubSeq(t, Len(t) - Len(s) + 1, Len(t)) = s

\* C30: under every interleaving of the handlers, the backend connection
\* dialed by the handler of client c has received a prefix of c's header
\* followed by c's payload (all of it once the copy has ended) and nothing
\* else, client c has received a prefix of what that backend connection sent
\* and nothing else, what c sent and is still unread sits in c's own socket
\* or in the reader of c's own handler, and a connection that no handler was
\* started for is untouched.
C30_Isolation ==
  /\ \A c \in Conns :
       /\ HandlersOf(c) = {} =>
            /\ clients[c].sock = SentOf(c)
            /\ clients[c].got = << >>
            /\ ~clients[c].gotEOF
            /\ ~clients[c].closed
       /\ \A h \in HandlersOf(c) :
            /\ IsPrefix(backends[h].got, HeaderFor(c) \o PayloadOf(c))
            /\ handlers[h].c2b = "done" => backends[h].got = HeaderFor(c) \o PayloadOf(c)
            /\ IsPrefix(clients[c].got, ReplyOf(h))
            /\ handlers[h].b2c = "done" => clients[c].got = ReplyOf(h)
            /\ IsSuffix(handlers[h].br \o clients[c].sock, SentOf(c))
            /\ handlers[h].pc = "detect" => clients[c].sock = SentOf(c)
  /\ \A h \in Conns : h > started => handlers[h] = NoHandler /\ backends[h] = NoBackend

\* every connection has been spliced to its end, the handlers having been
\* started in another order than the clients are numbered
C30_Witness ==
  /\ started = NumConns
  /\ handlers[1].clientConn = NumConns
  /\ \A h \in Conns :
       /\ handlers[h].pc = "closed"
       /\ handlers[h].c2b = "done"
       /\ handlers[h].b2c = "done"
       /\ clients[handlers[h].clientConn].got = ReplyOf(h)
(***************************************************************************)
(* The header comes first (checked under Spec).                            *)
(***************************************************************************)
\* the whole header has been written to backendConn
HeaderWritten == HeaderToSend # << >> /\ IsPrefix(HeaderToSend, bIn)

\* C31: the client has been delivered a byte of the backend only if the whole
\* header has been written to the backend; a copy, in either direction, has
\* started only if the header write has succeeded; before that the backend
\* has been written nothing; and when the handler has returned on a failed
\* header write, no byte has been forwarded in either direction and no copy
\* has started.
C31_HeaderFirst ==
  /\ cIn # << >> => HeaderWritten
  /\ (c2b # "idle" \/ b2c # "idle") =>
       /\ HeaderWritten
       /\ pc \in { "splice", "closed" }
       /\ ret \in { "", "done" }
  /\ pc \in { "detect", "dial", "header" } => bIn = << >> /\ cIn = << >>
  /\ ret = "header" =>
       /\ bIn = << >>
       /\ cIn = << >>
       /\ c2b = "idle"
       /\ b2c = "idle"

\* the handler has returned on a failed header write while bytes of the
\* backend and of the client were waiting to be read: none was forwarded
C31_Witness ==
  /\ ret = "header"
  /\ pc = "closed"
  /\ bsock # << >>
  /\ buf \o sock # << >>
  /\ cIn = << >>
  /\ bIn = << >>

====
